---- MODULE Spec2Model ----
(***************************************************************************)
(* A model of the CRE property scripts: the CSV importer                   *)
(* (scripts/csv_import.py), the Notion <-> Supabase sync                   *)
(* (scripts/notion_supabase_sync.py) and the one-file row importers        *)
(* (import_cre_data.py, simple_csv_import.py, import_direct.py,            *)
(* quick_setup.py).                                                        *)
(*                                                                         *)
(* Text is a sequence of one-character strings, so that strip, split and   *)
(* slicing are computed as Python computes them.  Python's None is         *)
(* None (for text and dictionary lookups) or NoNum (for numbers); pandas'  *)
(* NaN cell is NaN.                                                        *)
(***************************************************************************)
EXTENDS Integers, Sequences, FiniteSets, TLC

VARIABLES
    script,             \* the entry point that is running
    pc,                 \* its position
    raw_records,        \* process_csv_file: the rows read_csv_file returns
    target,             \* process_csv_file: "supabase" | "notion" | "both"
    batch_size,         \* process_csv_file: batch size of import_to_supabase
    dry_run,            \* process_csv_file: the dry-run flag
    notion_configured,  \* CSVImporter.notion_importer is not None
    results,            \* process_csv_file: the results dictionary
    valid_records,      \* the list a driver walks (valid records / pages / rows)
    stats,              \* the running driver's counters
    i,                  \* index of the current batch / record (1-based)
    j,                  \* index inside the failed batch (fallback walk)
    store,              \* the cre_properties table
    workspace,          \* the Notion database: its pages
    properties,         \* get_all_properties: the pages retrieved so far
    has_more,           \* get_all_properties: the loop flag
    start_cursor,       \* get_all_properties: the cursor of the next query
    queries,            \* history: the start cursor of every query sent
    trace,              \* history: every remote operation attempted, in order
    outcomes,           \* history: per source row, what became of it
    input,              \* the argument of the pure function being called
    output              \* what the call returned

vars == <<script, pc, raw_records, target, batch_size, dry_run, notion_configured,
          results, valid_records, stats, i, j, store, workspace,
          properties, has_more, start_cursor, queries, trace, outcomes,
          input, output>>

\* the arguments of process_csv_file
csvArgs == <<raw_records, target, batch_size, dry_run, notion_configured>>

\* the state of get_all_properties
pagingVars == <<properties, has_more, start_cursor, queries>>

\* the argument and the result of a call of a mapper or parser
callVars == <<input, output>>

-----------------------------------------------------------------------------
(* Bounds of the model *)

\* longest input list (rows of a CSV file) of the CSV importer
MaxRecords == 3

\* most pages the Notion database holds when it is paged through
MaxItems == 5

\* most pages the Notion database holds before a sync
MaxPages == 2

\* most rows the table holds before a sync
MaxStoreRows == 2

\* longest CSV file of the one-file importers
MaxRows == 2

\* most columns of a CSV file given to the field mapper
MaxHeaders == 2

\* longest square-footage text given to the parsers
MaxSqFtLen == 4

\* longest rate text given to the parsers
MaxRateLen == 3

\* longest building-type text given to the parsers
MaxTypesLen == 3

\* pages per response of the database query (the code asks for 100)
PageSize == 2

-----------------------------------------------------------------------------
(* Python values *)

None == <<"None">>
NoNum == <<>>
NaN == <<"NaN">>
Num(n) == <<n>>

\* str(value) of a pandas cell: str(float('nan')) is 'nan'
StrOf(cell) == IF cell = NaN THEN <<"n", "a", "n">> ELSE cell

\* truthiness of a text or None (not x)
Falsy(v) == v = None \/ v = <<>>

Min(S) == CHOOSE x \in S : \A y \in S : x <= y
Max(S) == CHOOSE x \in S : \A y \in S : x >= y

Whitespace == {" "}

\* str.strip()
Strip(s) ==
    LET keep == {k \in 1..Len(s) : s[k] \notin Whitespace}
    IN  IF keep = {} THEN <<>> ELSE SubSeq(s, Min(keep), Max(keep))

\* re.split(r'[...]', s) / s.split(sep): one more part than separators
RECURSIVE SplitOn(_, _)
SplitOn(s, seps) ==
    LET cut == {k \in 1..Len(s) : s[k] \in seps}
    IN  IF cut = {} THEN <<s>>
        ELSE <<SubSeq(s, 1, Min(cut) - 1)>>
             \o SplitOn(SubSeq(s, Min(cut) + 1, Len(s)), seps)

LowerLetters ==
    <<"a", "b", "c", "d", "e", "f", "g", "h", "i", "j", "k", "l", "m",
      "n", "o", "p", "q", "r", "s", "t", "u", "v", "w", "x", "y", "z">>
UpperLetters ==
    <<"A", "B", "C", "D", "E", "F", "G", "H", "I", "J", "K", "L", "M",
      "N", "O", "P", "Q", "R", "S", "T", "U", "V", "W", "X", "Y", "Z">>
IsLetter(c) == \E k \in 1..Len(LowerLetters) : c = LowerLetters[k] \/ c = UpperLetters[k]
UpperOf(c) ==
    IF \E k \in 1..Len(LowerLetters) : c = LowerLetters[k]
    THEN UpperLetters[CHOOSE k \in 1..Len(LowerLetters) : c = LowerLetters[k]]
    ELSE c
LowerOf(c) ==
    IF \E k \in 1..Len(UpperLetters) : c = UpperLetters[k]
    THEN LowerLetters[CHOOSE k \in 1..Len(UpperLetters) : c = UpperLetters[k]]
    ELSE c

\* str.upper()
Upper(s) == [k \in 1..Len(s) |-> UpperOf(s[k])]

\* str.lower()
Lower(s) == [k \in 1..Len(s) |-> LowerOf(s[k])]

\* str.title(): a letter after a non-letter is upper-cased, any other letter lower-cased
Title(s) ==
    [k \in 1..Len(s) |->
        IF k = 1 \/ ~IsLetter(s[k - 1]) THEN UpperOf(s[k]) ELSE LowerOf(s[k])]

\* the elements of a list that are truthy: [t for t in types if t]
RECURSIVE NonEmpty(_)
NonEmpty(parts) ==
    IF parts = <<>> THEN <<>>
    ELSE (IF Head(parts) = <<>> THEN <<>> ELSE <<Head(parts)>>) \o NonEmpty(Tail(parts))

\* the elements of a list in first-seen order, each once
RECURSIVE Dedup(_, _)
Dedup(parts, seen) ==
    IF parts = <<>> THEN seen
    ELSE Dedup(Tail(parts),
               IF \E k \in 1..Len(seen) : seen[k] = Head(parts)
               THEN seen ELSE Append(seen, Head(parts)))

Unknown == <<"U", "n", "k", "n", "o", "w", "n">>

Digits == <<"0", "1", "2", "3", "4", "5", "6", "7", "8", "9">>
IsDigit(c) == \E k \in 1..Len(Digits) : c = Digits[k]
DigitValue(c) == (CHOOSE k \in 1..Len(Digits) : c = Digits[k]) - 1

\* the value of a run of decimal digits
RECURSIVE DecimalValue(_)
DecimalValue(s) ==
    IF s = <<>> THEN 0
    ELSE 10 * DecimalValue(SubSeq(s, 1, Len(s) - 1)) + DigitValue(s[Len(s)])

\* the text after an optional sign
Unsigned(s) == IF s # <<>> /\ s[1] \in {"+", "-"} THEN Tail(s) ELSE s

\* int(s) does not raise ValueError: an optional sign and at least one digit
\* (the texts of the model hold no underscore and no surrounding whitespace)
IsInt(s) == Unsigned(s) # <<>> /\ \A k \in 1..Len(Unsigned(s)) : IsDigit(Unsigned(s)[k])

\* int(s)
IntOf(s) ==
    IF s[1] = "-" THEN 0 - DecimalValue(Unsigned(s)) ELSE DecimalValue(Unsigned(s))

\* re.sub(r'[...]', '', s) for a class of single characters: s without them
RECURSIVE Without(_, _)
Without(s, chars) ==
    IF s = <<>> THEN <<>>
    ELSE (IF Head(s) \in chars THEN <<>> ELSE <<Head(s)>>) \o Without(Tail(s), chars)

\* sub in s
Contains(s, c) == \E k \in 1..Len(s) : s[k] = c

NA == <<"N", "/", "A">>
TBD == <<"T", "B", "D">>

-----------------------------------------------------------------------------
(* Value parsers *)

\* a validator that accepts every address
validate_address_any(address) == TRUE

\* DataValidator.validate_address
validate_address(address) == ~(Falsy(address) \/ Len(Strip(address)) < 5)

\* DataValidator.validate_coordinates: a missing coordinate makes the pair valid
validate_coordinates(lat, lng) ==
    IF lat = NoNum \/ lng = NoNum THEN TRUE
    ELSE -90 <= lat[1] /\ lat[1] <= 90 /\ -180 <= lng[1] /\ lng[1] <= 180

\* DataValidator.clean_building_types
clean_building_types(building_types) ==
    IF Falsy(building_types) THEN <<>>
    ELSE LET types == SplitOn(building_types, {",", ";", "/", "|"})
             titled == [k \in 1..Len(types) |-> Title(Strip(types[k]))]
         IN  Dedup(NonEmpty(titled), <<>>)

\* parse_building_types of import_cre_data.py, simple_csv_import.py and
\* import_direct.py (the three are the same)
parse_building_types(building_type_text) ==
    IF Falsy(building_type_text) \/ Strip(building_type_text) = <<>>
    THEN <<Unknown>>
    ELSE LET parts == SplitOn(building_type_text, {","})
         IN  NonEmpty([k \in 1..Len(parts) |-> Strip(parts[k])])

\* parse_building_types of quick_setup.py: only the empty text gives the default
quick_setup_parse_building_types(building_type_text) ==
    IF Falsy(building_type_text)
    THEN <<Unknown>>
    ELSE LET parts == SplitOn(building_type_text, {","})
         IN  NonEmpty([k \in 1..Len(parts) |-> Strip(parts[k])])

\* validate_coordinates of import_cre_data.py: a missing coordinate is invalid
import_cre_data_validate_coordinates(lat, lng) ==
    IF lat = NoNum \/ lng = NoNum THEN FALSE
    ELSE -90 <= lat[1] /\ lat[1] <= 90 /\ -180 <= lng[1] /\ lng[1] <= 180

\* return None, None
NoRange == <<NoNum, NoNum>>

\* parse_square_footage of import_cre_data.py, simple_csv_import.py and
\* import_direct.py (the three are the same): in a range an empty side is None
parse_square_footage(sq_ft_text) ==
    IF Falsy(sq_ft_text) \/ Upper(sq_ft_text) = NA \/ Strip(sq_ft_text) = <<>>
    THEN NoRange
    ELSE LET cleaned == Without(sq_ft_text, {",", " "})
             parts == SplitOn(cleaned, {"-"})
         IN  IF Contains(cleaned, "-")
             THEN IF \/ parts[1] # <<>> /\ ~IsInt(parts[1])
                     \/ parts[2] # <<>> /\ ~IsInt(parts[2])
                  THEN NoRange
                  ELSE <<IF parts[1] = <<>> THEN NoNum ELSE Num(IntOf(parts[1])),
                         IF parts[2] = <<>> THEN NoNum ELSE Num(IntOf(parts[2]))>>
             ELSE IF IsInt(cleaned)
                  THEN <<Num(IntOf(cleaned)), Num(IntOf(cleaned))>>
                  ELSE NoRange

\* parse_square_footage of quick_setup.py: in a range both sides go through int()
quick_setup_parse_square_footage(sq_ft_text) ==
    IF Falsy(sq_ft_text) \/ Upper(sq_ft_text) = NA
    THEN NoRange
    ELSE LET cleaned == Without(sq_ft_text, {",", " "})
             parts == SplitOn(cleaned, {"-"})
         IN  IF Contains(cleaned, "-")
             THEN IF IsInt(parts[1]) /\ IsInt(parts[2])
                  THEN <<Num(IntOf(parts[1])), Num(IntOf(parts[2]))>>
                  ELSE NoRange
             ELSE IF IsInt(cleaned)
                  THEN <<Num(IntOf(cleaned)), Num(IntOf(cleaned))>>
                  ELSE NoRange

\* PropertyDataTransformer.parse_square_footage: a range has exactly two parts,
\* anything else goes through int() whole
PropertyDataTransformer_parse_square_footage(sq_ft_text) ==
    IF Falsy(sq_ft_text) \/ Upper(sq_ft_text) \in {NA, TBD, <<>>}
    THEN NoRange
    ELSE LET cleaned == Without(sq_ft_text, {",", " "})
             parts == SplitOn(cleaned, {"-"})
         IN  IF Contains(cleaned, "-") /\ Len(parts) = 2
             THEN IF IsInt(parts[1]) /\ IsInt(parts[2])
                  THEN <<Num(IntOf(parts[1])), Num(IntOf(parts[2]))>>
                  ELSE NoRange
             ELSE IF IsInt(cleaned)
                  THEN <<Num(IntOf(cleaned)), Num(IntOf(cleaned))>>
                  ELSE NoRange

\* the longest run of digits of s that starts at position p
DigitRun(s, p) ==
    LET ends == {q \in p..Len(s) : \A k \in p..q : IsDigit(s[k])}
    IN  IF ends = {} THEN <<>> ELSE SubSeq(s, p, Max(ends))

\* the digits of a fraction without its trailing zeros
RECURSIVE StripZeros(_)
StripZeros(frac) ==
    IF frac # <<>> /\ frac[Len(frac)] = "0"
    THEN StripZeros(SubSeq(frac, 1, Len(frac) - 1))
    ELSE frac

\* float("whole.frac"), as the pair <<n, e>> that stands for n / 10^e with n
\* not a multiple of 10 unless e = 0
FloatOf(whole, frac) ==
    <<DecimalValue(whole \o StripZeros(frac)), Len(StripZeros(frac))>>

\* there is a match of [0-9]+\.?[0-9]* in the text
HasNumber(text) == \E k \in 1..Len(text) : IsDigit(text[k])

\* float(re.search(r'[\$]?([0-9]+\.?[0-9]*)', text).group(1)): the leftmost
\* run of digits, a point after it if there is one, and the digits after the
\* point
SearchNumber(text) ==
    LET p == Min({k \in 1..Len(text) : IsDigit(text[k])})
        whole == DigitRun(text, p)
        q == p + Len(whole)
        frac == IF q <= Len(text) /\ text[q] = "." THEN DigitRun(text, q + 1) ELSE <<>>
    IN  FloatOf(whole, frac)

\* parse_rate of import_cre_data.py
parse_rate(rate_text) ==
    IF Falsy(rate_text) \/ Upper(rate_text) = NA \/ Strip(rate_text) = <<>>
    THEN NoNum
    ELSE IF HasNumber(Without(rate_text, {","}))
         THEN Num(SearchNumber(Without(rate_text, {","})))
         ELSE NoNum

\* parse_rate of simple_csv_import.py, import_direct.py and quick_setup.py
\* (the three are the same)
simple_csv_import_parse_rate(rate_text) ==
    IF Falsy(rate_text) \/ Upper(rate_text) = NA
    THEN NoNum
    ELSE IF HasNumber(Without(rate_text, {","}))
         THEN Num(SearchNumber(Without(rate_text, {","})))
         ELSE NoNum

\* PropertyDataTransformer.parse_rate: '$' and ',' are removed before the search
PropertyDataTransformer_parse_rate(rate_text) ==
    IF Falsy(rate_text) \/ Upper(rate_text) \in {NA, TBD, <<>>}
    THEN NoNum
    ELSE IF HasNumber(Without(rate_text, {"$", ","}))
         THEN Num(SearchNumber(Without(rate_text, {"$", ","})))
         ELSE NoNum

\* s[:2]
FirstTwo(s) == SubSeq(s, 1, IF Len(s) < 2 THEN Len(s) ELSE 2)

-----------------------------------------------------------------------------
(* scripts/csv_import.py: rows and records *)

\* a cell of a text column as pandas gives it: NaN for an empty cell, else text
\* a cell of a coordinate column: empty, a number, or text float() rejects
NanCell == [kind |-> "nan", num |-> 0]
NumCell(n) == [kind |-> "num", num |-> n]
TextCell == [kind |-> "text", num |-> 0]

\* pd.isna(value) or value == ''
IsBlank(cell) == cell = NaN \/ cell = <<>>

\* float(value) of a coordinate cell that is not blank; ValueError gives no key
CoordOf(cell) == IF cell.kind = "num" THEN Num(cell.num) ELSE NoNum

\* CSVImporter.transform_csv_record, for a field mapping that maps every column
\* of the row; a key the loop skips reads as None / NoNum
transform_csv_record(record) ==
    [address        |-> IF IsBlank(record.address) THEN None
                        ELSE Strip(StrOf(record.address)),
     city           |-> IF IsBlank(record.city) THEN None
                        ELSE Strip(StrOf(record.city)),
     state          |-> IF IsBlank(record.state) THEN None
                        ELSE Strip(StrOf(record.state)),
     rate_text      |-> IF IsBlank(record.rate) THEN None
                        ELSE Strip(StrOf(record.rate)),
     building_types |-> IF IsBlank(record.building_type) THEN <<Unknown>>
                        ELSE clean_building_types(StrOf(record.building_type)),
     latitude       |-> CoordOf(record.latitude),
     longitude      |-> CoordOf(record.longitude),
     notion_id      |-> NoNum]

\* CSVImporter.validate_record: the list of messages; the record is valid iff
\* the list is empty
validate_record(record) ==
    (IF Falsy(record.address) THEN <<"Missing required field: address">> ELSE <<>>)
    \o (IF Falsy(record.city) THEN <<"Missing required field: city">> ELSE <<>>)
    \o (IF Falsy(record.state) THEN <<"Missing required field: state">> ELSE <<>>)
    \o (IF Falsy(record.rate_text) THEN <<"Missing required field: rate_text">> ELSE <<>>)
    \o (IF ~Falsy(record.address) /\ ~validate_address(record.address)
        THEN <<"Invalid address format">> ELSE <<>>)
    \o (IF ~validate_coordinates(record.latitude, record.longitude)
        THEN <<"Invalid coordinates">> ELSE <<>>)

-----------------------------------------------------------------------------
(* The property store (table cre_properties) and the workspace database *)

\* id UUID PRIMARY KEY DEFAULT gen_random_uuid(): a fresh id
NewId(rows) == IF rows = <<>> THEN 1 ELSE 1 + Max({rows[k].id : k \in 1..Len(rows)})

\* notion_id TEXT UNIQUE: the insert of a row conflicts with the table
Conflicts(rows, record) ==
    record.notion_id # NoNum
    /\ \E k \in 1..Len(rows) : rows[k].notion_id = record.notion_id

\* table.insert(record): the row the table then holds
StoreRow(id, record) ==
    [id |-> id, notion_id |-> record.notion_id,
     address |-> record.address, city |-> record.city, state |-> record.state,
     rate_text |-> record.rate_text, building_types |-> record.building_types,
     latitude |-> record.latitude, longitude |-> record.longitude]

\* table.insert(batch): all rows or none
RECURSIVE InsertAll(_, _)
InsertAll(rows, batch) ==
    IF batch = <<>> THEN rows
    ELSE InsertAll(Append(rows, StoreRow(NewId(rows), Head(batch))), Tail(batch))

\* a lookup by address and city that never finds a row
SelectByAddress_none(rows, address, city) == <<>>

\* table.select("id").eq("address", a).eq("city", c): the matching rows, in table order
RECURSIVE SelectByAddress(_, _, _)
SelectByAddress(rows, address, city) ==
    IF rows = <<>> THEN <<>>
    ELSE (IF Head(rows).address = address /\ Head(rows).city = city
          THEN <<Head(rows)>> ELSE <<>>)
         \o SelectByAddress(Tail(rows), address, city)

\* table.update(record).eq("id", id) with a transformed CSV record: the columns
\* the record has a key for are overwritten, the others are kept
UpdateById(rows, id, record) ==
    [k \in 1..Len(rows) |->
        IF rows[k].id # id THEN rows[k]
        ELSE [rows[k] EXCEPT
                !.address = record.address, !.city = record.city,
                !.state = record.state, !.rate_text = record.rate_text,
                !.building_types = record.building_types,
                !.latitude = IF record.latitude = NoNum THEN @ ELSE record.latitude,
                !.longitude = IF record.longitude = NoNum THEN @ ELSE record.longitude]]

-----------------------------------------------------------------------------
(* History *)

\* one remote operation that settles records: the driver that issued it, the
\* operation (a write, or a lookup that raised), the records lo..hi of the
\* driver's list it carries, whether the remote accepted it, and the driver's
\* counters before and after it
Event(driver, op, lo, hi, ok, before, after) ==
    [driver |-> driver, op |-> op, lo |-> lo, hi |-> hi, ok |-> ok,
     before |-> before, after |-> after]

WriteOps == {"insert_batch", "insert", "update", "create_page"}

\* stats = {"created": 0, "updated": 0, "errors": 0, "skipped": 0}
ZeroStats == [created |-> 0, updated |-> 0, errors |-> 0, skipped |-> 0]

\* stats["created"] += n
CountCreated(st, n) == [st EXCEPT !.created = @ + n]

\* stats["updated"] += 1
CountUpdated(st) == [st EXCEPT !.updated = @ + 1]

\* a driver that forgets to count a failure
CountError_dropped(st) == st

\* stats["errors"] += 1
CountError(st) == [st EXCEPT !.errors = @ + 1]

Total(st) == st.created + st.updated + st.errors

-----------------------------------------------------------------------------
(* scripts/csv_import.py: CSVImporter.process_csv_file *)

Elm == <<"1", " ", "E", "l", "m">>
Oak == <<"2", " ", "O", "a", "k">>
Ax == <<"A", "x">>
TX == <<"T", "X">>
Rate1 == <<"$", "1">>
Rate2 == <<"$", "2">>
Office == <<"a">>

RawRow(address, city, state, rate, building_type, latitude, longitude) ==
    [address |-> address, city |-> city, state |-> state, rate |-> rate,
     building_type |-> building_type, latitude |-> latitude, longitude |-> longitude]

\* the rows a CSV file of the model is made of: two rows with the same address
\* and city and different rate text, a row with another address, and a row
\* without a state
SampleRows ==
    {RawRow(Elm, Ax, TX, Rate1, Office, NumCell(45), NumCell(0)),
     RawRow(Elm, Ax, TX, Rate2, NaN, NanCell, NanCell),
     RawRow(Oak, Ax, TX, Rate1, Office, NanCell, NanCell),
     RawRow(Oak, Ax, NaN, Rate1, Office, NanCell, NanCell)}

SeqsUpTo(S, n) == UNION {[1..k -> S] : k \in 0..n}

Targets == {"supabase", "notion", "both"}

\* results = {...} of process_csv_file
InitialResults ==
    [total_records |-> 0, valid_records |-> 0, invalid_records |-> 0,
     supabase_stats |-> <<>>, notion_stats |-> <<>>, errors |-> <<>>]

InitCsv ==
    /\ script = "csv_import"
    /\ pc = "read"
    /\ raw_records \in SeqsUpTo(SampleRows, MaxRecords)
    /\ target \in Targets
    /\ batch_size \in 1..MaxRecords
    /\ dry_run \in BOOLEAN
    /\ notion_configured \in BOOLEAN
    /\ results = InitialResults
    /\ valid_records = <<>>
    /\ stats = ZeroStats
    /\ i = 1
    /\ j = 1
    /\ store = <<>>
    /\ workspace = <<>>
    /\ properties = <<>>
    /\ has_more = TRUE
    /\ start_cursor = NoNum
    /\ queries = <<>>
    /\ trace = <<>>
    /\ outcomes = <<>>
    /\ input = <<>>
    /\ output = <<>>

\* the loop of process_csv_file over raw_records: the valid records, in order
RECURSIVE ValidOf(_)
ValidOf(rows) ==
    IF rows = <<>> THEN <<>>
    ELSE (IF validate_record(transform_csv_record(Head(rows))) = <<>>
          THEN <<transform_csv_record(Head(rows))>> ELSE <<>>)
         \o ValidOf(Tail(rows))

\* a loop that records no message for an invalid record
ErrorsOf_dropped(rows, row) == <<>>

\* the loop of process_csv_file over raw_records: results["errors"], one
\* message per invalid record, tagged with the row index
RECURSIVE ErrorsOf(_, _)
ErrorsOf(rows, row) ==
    IF rows = <<>> THEN <<>>
    ELSE (IF validate_record(transform_csv_record(Head(rows))) = <<>>
          THEN <<>>
          ELSE <<[row |-> row, errors |-> validate_record(transform_csv_record(Head(rows)))]>>)
         \o ErrorsOf(Tail(rows), row + 1)

\* read_csv_file raises: the outer except records the fatal error and returns
ReadFails ==
    /\ script = "csv_import" /\ pc = "read"
    /\ results' = [results EXCEPT !.errors = Append(@, [row |-> 0, errors |-> <<"Fatal error">>])]
    /\ pc' = "done"
    /\ UNCHANGED <<callVars, script, csvArgs, valid_records, stats, i, j, store, workspace,
                   pagingVars, trace, outcomes>>

\* a dry run that falls through to the imports
DryRunReturns_ignored(dry) == FALSE

\* if dry_run: return results
DryRunReturns(dry) == dry

\* if target in ["supabase", "both"] and valid_records:
WantsSupabase(tgt, valid) == tgt \in {"supabase", "both"} /\ valid # <<>>

\* a selector that sends every file with a valid record to Notion
WantsNotion_any(tgt, valid, configured) == valid # <<>>

\* if target in ["notion", "both"] and valid_records: if self.notion_importer:
WantsNotion(tgt, valid, configured) ==
    tgt \in {"notion", "both"} /\ valid # <<>> /\ configured

\* where process_csv_file goes once import_to_supabase is over or skipped
AfterSupabase(valid) ==
    IF WantsNotion(target, valid, notion_configured) THEN "notion" ELSE "done"

\* read_csv_file, then the transform-and-validate loop, then the dry-run return
\* or the choice of the first import
ReadAndValidate ==
    /\ script = "csv_import" /\ pc = "read"
    /\ valid_records' = ValidOf(raw_records)
    /\ results' = [results EXCEPT
                     !.total_records = Len(raw_records),
                     !.valid_records = Len(ValidOf(raw_records)),
                     !.invalid_records = Len(ErrorsOf(raw_records, 1)),
                     !.errors = ErrorsOf(raw_records, 1)]
    /\ pc' = IF DryRunReturns(dry_run) THEN "done"
             ELSE IF WantsSupabase(target, valid_records') THEN "batch"
             ELSE AfterSupabase(valid_records')
    /\ stats' = ZeroStats
    /\ i' = 1
    /\ UNCHANGED <<callVars, script, csvArgs, j, store, workspace, pagingVars, trace, outcomes>>

\* batch = records[i:i + batch_size]: the index of its last record
BatchEnd(start) ==
    IF start + batch_size - 1 < Len(valid_records)
    THEN start + batch_size - 1 ELSE Len(valid_records)

\* import_to_supabase returns: results["supabase_stats"] = stats
SupabaseReturns(st) ==
    /\ results' = [results EXCEPT !.supabase_stats = <<st>>]
    /\ pc' = AfterSupabase(valid_records)
    /\ stats' = ZeroStats
    /\ i' = 1

\* the next batch, or the return of import_to_supabase after the last one
NextBatch(st) ==
    IF i + batch_size > Len(valid_records)
    THEN SupabaseReturns(st)
    ELSE /\ pc' = "batch"
         /\ i' = i + batch_size
         /\ stats' = st
         /\ UNCHANGED results

\* import_to_supabase: table.insert(batch) of the batch that starts at i
BatchInsert ==
    /\ script = "csv_import" /\ pc = "batch"
    /\ \E ok \in BOOLEAN :
        LET st == IF ok THEN CountCreated(stats, BatchEnd(i) - i + 1) ELSE stats
        IN  /\ trace' = Append(trace, Event("import_to_supabase", "insert_batch",
                                            i, BatchEnd(i), ok, stats, st))
            /\ IF ok
               THEN /\ store' = InsertAll(store, SubSeq(valid_records, i, BatchEnd(i)))
                    /\ NextBatch(st)
                    /\ UNCHANGED j
               ELSE /\ pc' = "fallback"
                    /\ j' = i
                    /\ UNCHANGED <<store, stats, i, results>>
    /\ UNCHANGED <<callVars, script, csvArgs, valid_records, workspace, pagingVars, outcomes>>

\* a fallback that gives up after the first record of the batch
FallbackEnd_first(start) == start

\* for record in batch: the index of the last record of the fallback walk
FallbackEnd(start) == BatchEnd(start)

\* the next record of the failed batch, or the next batch after its last one
NextFallback(st) ==
    IF j < FallbackEnd(i)
    THEN /\ j' = j + 1
         /\ stats' = st
         /\ UNCHANGED <<pc, i, results>>
    ELSE /\ NextBatch(st)
         /\ UNCHANGED j

\* import_to_supabase, except branch: record j of the failed batch on its own
FallbackRecord ==
    /\ script = "csv_import" /\ pc = "fallback"
    /\ LET record == valid_records[j]
           existing == SelectByAddress(store, record.address, record.city)
       IN  \E outcome \in {"select_raises", "write_raises", "ok"} :
            LET op == IF outcome = "select_raises" THEN "select"
                      ELSE IF existing # <<>> THEN "update" ELSE "insert"
                st == IF outcome # "ok" THEN CountError(stats)
                      ELSE IF existing # <<>> THEN CountUpdated(stats)
                      ELSE CountCreated(stats, 1)
            IN  /\ trace' = Append(trace, Event("import_to_supabase", op, j, j,
                                                outcome = "ok", stats, st))
                /\ store' = IF outcome # "ok" THEN store
                            ELSE IF existing # <<>>
                            THEN UpdateById(store, existing[1].id, record)
                            ELSE InsertAll(store, <<record>>)
                /\ NextFallback(st)
    /\ UNCHANGED <<callVars, script, csvArgs, valid_records, workspace, pagingVars, outcomes>>

\* NotionImporter.create_property: the page the workspace then holds
NewPage(pages, record) ==
    [id |-> Len(pages) + 1, address |-> record.address, city |-> record.city,
     state |-> record.state, rate_text |-> record.rate_text,
     building_types |-> record.building_types,
     latitude |-> record.latitude, longitude |-> record.longitude]

\* import_to_notion: create_property of record i
NotionCreate ==
    /\ script = "csv_import" /\ pc = "notion"
    /\ \E ok \in BOOLEAN :
        LET st == IF ok THEN CountCreated(stats, 1) ELSE CountError(stats)
        IN
        /\ trace' = Append(trace, Event("import_to_notion", "create_page", i, i, ok, stats, st))
        /\ workspace' = IF ok THEN Append(workspace, NewPage(workspace, valid_records[i]))
                        ELSE workspace
        /\     IF i < Len(valid_records)
               THEN /\ i' = i + 1
                    /\ stats' = st
                    /\ UNCHANGED <<pc, results>>
               ELSE /\ results' = [results EXCEPT
                                     !.notion_stats = <<[created |-> st.created, errors |-> st.errors]>>]
                    /\ pc' = "done"
                    /\ stats' = ZeroStats
                    /\ i' = 1
    /\ UNCHANGED <<callVars, script, csvArgs, valid_records, j, store, pagingVars, outcomes>>

NextCsv == ReadFails \/ ReadAndValidate \/ BatchInsert \/ FallbackRecord \/ NotionCreate

\* scripts/csv_import.py alone
SpecCsv == InitCsv /\ [][NextCsv]_vars

-----------------------------------------------------------------------------
(* The one-file importers: import_cre_data.py, simple_csv_import.py,
   import_direct.py, quick_setup.py *)

\* the scripts that read the file with pandas (an empty cell is NaN); the
\* others read it with csv.DictReader (an empty cell is '')
PandasScripts == {"csv_import", "import_cre_data", "quick_setup"}

RowScripts == {"import_cre_data", "simple_csv_import", "import_direct", "quick_setup"}

EmptyCell(s) == IF s \in PandasScripts THEN NaN ELSE <<>>

\* the rows a CSV file of the model is made of, as script s reads them: a
\* complete row, rows without address, city or state, a row with a latitude
\* only, a row with a longitude out of range, a row whose building type is a
\* lone comma
ImportRows(s) ==
    {RawRow(Elm, Ax, TX, Rate1, Office, NumCell(45), NumCell(0)),
     RawRow(EmptyCell(s), Ax, TX, Rate1, Office, NanCell, NanCell),
     RawRow(Elm, <<" ">>, TX, Rate1, Office, NanCell, NanCell),
     RawRow(Elm, Ax, <<" ">>, Rate1, Office, NanCell, NanCell),
     RawRow(Elm, Ax, TX, Rate1, Office, NumCell(95), NanCell),
     RawRow(Elm, Ax, TX, Rate1, Office, NumCell(45), NumCell(-200)),
     RawRow(Elm, Ax, TX, Rate1, <<",">>, TextCell, NumCell(0))}

\* what became of a source row: whether it was written, whether a counter was
\* incremented for it, whether a message was printed for it
Outcome(row, written, counted, message) ==
    [row |-> row, written |-> written, counted |-> counted, message |-> message]

\* imported += 1
CountImported(st) == [st EXCEPT !.created = @ + 1]

\* the longitude and latitude import_cre_data.py reads from a row: each cell is
\* converted in a try of its own, then a complete pair is validated and an
\* invalid one is dropped
import_cre_data_coordinates(row) ==
    LET longitude == CoordOf(row.longitude)
        latitude == CoordOf(row.latitude)
    IN  IF longitude # NoNum /\ latitude # NoNum
           /\ ~import_cre_data_validate_coordinates(latitude, longitude)
        THEN [latitude |-> NoNum, longitude |-> NoNum, message |-> TRUE]
        ELSE [latitude |-> latitude, longitude |-> longitude, message |-> FALSE]

\* property_data of import_cre_data.py
import_cre_data_property_data(row) ==
    [address        |-> Strip(StrOf(row.address)),
     city           |-> Strip(StrOf(row.city)),
     state          |-> FirstTwo(Upper(Strip(StrOf(row.state)))),
     rate_text      |-> Strip(StrOf(row.rate)),
     building_types |-> parse_building_types(StrOf(row.building_type)),
     latitude       |-> import_cre_data_coordinates(row).latitude,
     longitude      |-> import_cre_data_coordinates(row).longitude,
     notion_id      |-> NoNum]

\* import_cre_data.py: if not address or not city or not state
import_cre_data_skips(property_data) ==
    Falsy(property_data.address) \/ Falsy(property_data.city) \/ Falsy(property_data.state)

\* the longitude and latitude simple_csv_import.py and import_direct.py read
\* from a row: both cells are converted in one try, longitude first, and no
\* pair is validated
simple_csv_import_coordinates(row) ==
    [longitude |-> CoordOf(row.longitude),
     latitude  |-> IF row.longitude.kind = "text" THEN NoNum ELSE CoordOf(row.latitude)]

\* property_data of simple_csv_import.py and import_direct.py
simple_csv_import_property_data(row) ==
    [address        |-> Strip(row.address),
     city           |-> Strip(row.city),
     state          |-> FirstTwo(Upper(Strip(row.state))),
     rate_text      |-> Strip(row.rate),
     building_types |-> parse_building_types(row.building_type),
     latitude       |-> simple_csv_import_coordinates(row).latitude,
     longitude      |-> simple_csv_import_coordinates(row).longitude,
     notion_id      |-> NoNum]

\* simple_csv_import.py and import_direct.py: if not address or not city
simple_csv_import_skips(property_data) ==
    Falsy(property_data.address) \/ Falsy(property_data.city)

\* property_data of quick_setup.py: nothing is stripped, nothing is validated
quick_setup_property_data(row) ==
    [address        |-> StrOf(row.address),
     city           |-> StrOf(row.city),
     state          |-> StrOf(row.state),
     rate_text      |-> StrOf(row.rate),
     building_types |-> quick_setup_parse_building_types(StrOf(row.building_type)),
     latitude       |-> CoordOf(row.latitude),
     longitude      |-> CoordOf(row.longitude),
     notion_id      |-> NoNum]

\* the end of the loop body: the next row, or the end of the file
NextRow(st) ==
    /\ stats' = st
    /\ IF i < Len(raw_records)
       THEN i' = i + 1 /\ UNCHANGED pc
       ELSE i' = i /\ pc' = "done"

\* the answers of table.insert(record).execute(): rows in result.data, an empty
\* result.data, or an exception
InsertAnswers == {"data", "no_data", "raises"}

\* import_cre_data.py, import_csv_to_supabase: the loop body for row i
ImportCreDataRow ==
    /\ script = "import_cre_data" /\ pc = "row"
    /\ LET property_data == import_cre_data_property_data(raw_records[i])
       IN  IF import_cre_data_skips(property_data)
           THEN /\ outcomes' = Append(outcomes, Outcome(i, FALSE, TRUE, TRUE))
                /\ NextRow(CountError(stats))
                /\ UNCHANGED store
           ELSE \E answer \in InsertAnswers :
                /\ store' = IF answer = "data" THEN InsertAll(store, <<property_data>>)
                            ELSE store
                /\ outcomes' = Append(outcomes, Outcome(i, answer = "data", TRUE, answer # "data"))
                /\ NextRow(IF answer = "data" THEN CountImported(stats) ELSE CountError(stats))
    /\ UNCHANGED <<callVars, script, csvArgs, results, valid_records, j, workspace, pagingVars, trace>>

\* simple_csv_import.py, import_csv: the loop body for row i
SimpleCsvImportRow ==
    /\ script = "simple_csv_import" /\ pc = "row"
    /\ LET property_data == simple_csv_import_property_data(raw_records[i])
       IN  IF Strip(raw_records[i].address) = <<>>
           THEN \* if not row.get('Address', '').strip(): continue
                /\ outcomes' = Append(outcomes, Outcome(i, FALSE, FALSE, FALSE))
                /\ NextRow(stats)
                /\ UNCHANGED store
           ELSE IF simple_csv_import_skips(property_data)
           THEN \* errors += 1; continue
                /\ outcomes' = Append(outcomes, Outcome(i, FALSE, TRUE, FALSE))
                /\ NextRow(CountError(stats))
                /\ UNCHANGED store
           ELSE \E answer \in InsertAnswers :
                /\ store' = IF answer = "data" THEN InsertAll(store, <<property_data>>)
                            ELSE store
                /\ outcomes' = Append(outcomes, Outcome(i, answer = "data", TRUE, answer # "data"))
                /\ NextRow(IF answer = "data" THEN CountImported(stats) ELSE CountError(stats))
    /\ UNCHANGED <<callVars, script, csvArgs, results, valid_records, j, workspace, pagingVars, trace>>

\* the answers of insert_property: status 200 or 201, another status, or an
\* exception of requests.post, which insert_property prints
PostAnswers == {"created", "refused", "raises"}

\* import_direct.py, main: the loop body for row i
ImportDirectRow ==
    /\ script = "import_direct" /\ pc = "row"
    /\ LET property_data == simple_csv_import_property_data(raw_records[i])
       IN  IF Strip(raw_records[i].address) = <<>>
           THEN /\ outcomes' = Append(outcomes, Outcome(i, FALSE, FALSE, FALSE))
                /\ NextRow(stats)
                /\ UNCHANGED store
           ELSE IF simple_csv_import_skips(property_data)
           THEN /\ outcomes' = Append(outcomes, Outcome(i, FALSE, TRUE, FALSE))
                /\ NextRow(CountError(stats))
                /\ UNCHANGED store
           ELSE \E answer \in PostAnswers :
                /\ store' = IF answer = "created" THEN InsertAll(store, <<property_data>>)
                            ELSE store
                /\ outcomes' = Append(outcomes,
                                      Outcome(i, answer = "created", TRUE, answer = "raises"))
                /\ NextRow(IF answer = "created" THEN CountImported(stats) ELSE CountError(stats))
    /\ UNCHANGED <<callVars, script, csvArgs, results, valid_records, j, workspace, pagingVars, trace>>

\* quick_setup.py, import_csv_to_supabase: the loop body for row i; float() of
\* a coordinate cell that is no number raises inside the try
QuickSetupRow ==
    /\ script = "quick_setup" /\ pc = "row"
    /\ LET property_data == quick_setup_property_data(raw_records[i])
       IN  IF raw_records[i].latitude.kind = "text" \/ raw_records[i].longitude.kind = "text"
           THEN /\ outcomes' = Append(outcomes, Outcome(i, FALSE, TRUE, TRUE))
                /\ NextRow(CountError(stats))
                /\ UNCHANGED store
           ELSE \E answer \in InsertAnswers :
                /\ store' = IF answer = "data" THEN InsertAll(store, <<property_data>>)
                            ELSE store
                /\ outcomes' = Append(outcomes, Outcome(i, answer = "data", TRUE, answer # "data"))
                /\ NextRow(IF answer = "data" THEN CountImported(stats) ELSE CountError(stats))
    /\ UNCHANGED <<callVars, script, csvArgs, results, valid_records, j, workspace, pagingVars, trace>>

InitRows ==
    /\ script \in RowScripts
    /\ raw_records \in SeqsUpTo(ImportRows(script), MaxRows)
    /\ pc = IF raw_records = <<>> THEN "done" ELSE "row"
    /\ target = "supabase"
    /\ batch_size = 1
    /\ dry_run = FALSE
    /\ notion_configured = FALSE
    /\ results = InitialResults
    /\ valid_records = <<>>
    /\ stats = ZeroStats
    /\ i = 1
    /\ j = 1
    /\ store = <<>>
    /\ workspace = <<>>
    /\ properties = <<>>
    /\ has_more = TRUE
    /\ start_cursor = NoNum
    /\ queries = <<>>
    /\ trace = <<>>
    /\ outcomes = <<>>
    /\ input = <<>>
    /\ output = <<>>

NextRows == ImportCreDataRow \/ SimpleCsvImportRow \/ ImportDirectRow \/ QuickSetupRow

\* the one-file importers alone
SpecRows == InitRows /\ [][NextRows]_vars

\* process_csv_file over the rows of the one-file importers, written to both
\* targets one record per batch
InitCsvRows ==
    /\ script = "csv_import"
    /\ pc = "read"
    /\ raw_records \in SeqsUpTo(ImportRows(script), MaxRows)
    /\ target = "both"
    /\ batch_size = 1
    /\ dry_run = FALSE
    /\ notion_configured = TRUE
    /\ results = InitialResults
    /\ valid_records = <<>>
    /\ stats = ZeroStats
    /\ i = 1
    /\ j = 1
    /\ store = <<>>
    /\ workspace = <<>>
    /\ properties = <<>>
    /\ has_more = TRUE
    /\ start_cursor = NoNum
    /\ queries = <<>>
    /\ trace = <<>>
    /\ outcomes = <<>>
    /\ input = <<>>
    /\ output = <<>>

-----------------------------------------------------------------------------
(* scripts/notion_supabase_sync.py: NotionClient.get_all_properties *)

\* a page of the Notion database: its id and the values of its properties (a
\* property the page does not have reads as None / NoNum / no building type)
Page(id, address, city, state, rate_text, building_types, latitude, longitude) ==
    [id |-> id, address |-> address, city |-> city, state |-> state,
     rate_text |-> rate_text, building_types |-> building_types,
     latitude |-> latitude, longitude |-> longitude]

\* the pages a Notion database of the model is made of: a complete page, and a
\* page with no property filled in
FullPage(id) == Page(id, Elm, Ax, TX, Rate2, <<Office>>, Num(45), Num(0))
BlankPage(id) == Page(id, None, None, None, None, <<>>, NoNum, NoNum)

Databases(n) ==
    UNION {{[k \in 1..len |-> IF full[k] THEN FullPage(k) ELSE BlankPage(k)] :
                full \in [1..len -> BOOLEAN]} : len \in 0..n}

\* the Notion API's answer to query_database(start_cursor): the cursor names
\* the first page of the answer, a query without cursor starts at the first
\* page of the database
QueryResponse(pages, cursor) ==
    LET first == IF cursor = NoNum THEN 1 ELSE cursor[1]
        last == IF first + PageSize - 1 < Len(pages) THEN first + PageSize - 1 ELSE Len(pages)
    IN  [results |-> SubSeq(pages, first, last),
         has_more |-> last < Len(pages),
         next_cursor |-> IF last < Len(pages) THEN Num(last + 1) ELSE NoNum]

\* a loop that never moves the cursor
NextCursor_stuck(response) == NoNum

\* start_cursor = response.get("next_cursor")
NextCursor(response) == response.next_cursor

\* a loop that never reads the flag
HasMore_ignored(response) == TRUE

\* has_more = response.get("has_more", False)
HasMore(response) == response.has_more

\* the entry points that page through the Notion database
PagingScripts == {"get_all_properties", "sync_to_supabase", "full_sync"}

\* the model stops a loop that has sent more queries than the database has pages
MaxQueries == MaxItems + 1

\* one turn of the while loop: query_database(start_cursor), which raises on a
\* status other than 200
QueryDatabase ==
    /\ script \in PagingScripts /\ pc = "query"
    /\ has_more
    /\ Len(queries) < MaxQueries
    /\ queries' = Append(queries, start_cursor)
    /\ \E ok \in BOOLEAN :
        IF ok
        THEN LET response == QueryResponse(workspace, start_cursor)
             IN  /\ properties' = properties \o response.results
                 /\ has_more' = HasMore(response)
                 /\ start_cursor' = NextCursor(response)
                 /\ UNCHANGED pc
        ELSE /\ pc' = "raised"
             /\ UNCHANGED <<properties, has_more, start_cursor>>
    /\ UNCHANGED <<callVars, script, csvArgs, results, valid_records, stats, i, j, store,
                   workspace, trace, outcomes>>

\* the loop is over: return properties (to the caller, in a sync)
ReturnProperties ==
    /\ script \in PagingScripts /\ pc = "query"
    /\ ~has_more
    /\ IF script = "get_all_properties"
       THEN /\ pc' = "returned"
            /\ UNCHANGED <<valid_records, results>>
       ELSE /\ valid_records' = properties
            /\ IF properties # <<>>
               THEN /\ pc' = "page"
                    /\ UNCHANGED results
               ELSE /\ results' = [results EXCEPT !.notion_to_supabase = <<stats>>]
                    /\ pc' = IF script = "full_sync" THEN "select_unsynced" ELSE "done"
    /\ UNCHANGED <<callVars, script, csvArgs, stats, i, j, store, workspace, pagingVars,
                   trace, outcomes>>

InitPaging ==
    /\ script = "get_all_properties"
    /\ pc = "query"
    /\ raw_records = <<>>
    /\ target = "supabase"
    /\ batch_size = 1
    /\ dry_run = FALSE
    /\ notion_configured = TRUE
    /\ results = InitialResults
    /\ valid_records = <<>>
    /\ stats = ZeroStats
    /\ i = 1
    /\ j = 1
    /\ store = <<>>
    /\ workspace \in Databases(MaxItems)
    /\ properties = <<>>
    /\ has_more = TRUE
    /\ start_cursor = NoNum
    /\ queries = <<>>
    /\ trace = <<>>
    /\ outcomes = <<>>
    /\ input = <<>>
    /\ output = <<>>

NextPaging == QueryDatabase \/ ReturnProperties

\* get_all_properties alone
SpecPaging == InitPaging /\ [][NextPaging]_vars

\* get_all_properties alone; the program is single-threaded and synchronous,
\* so a step that can be taken is taken
FairSpecPaging == SpecPaging /\ WF_vars(NextPaging)

-----------------------------------------------------------------------------
(* scripts/notion_supabase_sync.py: CREDataSync *)

\* x or "" of notion_to_supabase
OrEmpty(text) == IF Falsy(text) THEN <<>> ELSE text

\* a record that does not carry the id of its page
notion_to_supabase_unlinked(notion_page) ==
    [notion_id      |-> NoNum,
     address        |-> OrEmpty(notion_page.address),
     city           |-> OrEmpty(notion_page.city),
     state          |-> OrEmpty(notion_page.state),
     rate_text      |-> OrEmpty(notion_page.rate_text),
     building_types |-> notion_page.building_types,
     latitude       |-> notion_page.latitude,
     longitude      |-> notion_page.longitude]

\* PropertyDataTransformer.notion_to_supabase: the record built from a page
\* (extract_notion_property_value gives "" or None for a property not filled in)
notion_to_supabase(notion_page) ==
    [notion_id      |-> Num(notion_page.id),
     address        |-> OrEmpty(notion_page.address),
     city           |-> OrEmpty(notion_page.city),
     state          |-> OrEmpty(notion_page.state),
     rate_text      |-> OrEmpty(notion_page.rate_text),
     building_types |-> notion_page.building_types,
     latitude       |-> notion_page.latitude,
     longitude      |-> notion_page.longitude]

\* PropertyDataTransformer.supabase_to_notion followed by create_property: the
\* page the workspace then holds (Longitude and Latitude only when not None)
supabase_to_notion(pages, supabase_record) ==
    Page(Len(pages) + 1, supabase_record.address, supabase_record.city,
         supabase_record.state, supabase_record.rate_text,
         supabase_record.building_types,
         supabase_record.latitude, supabase_record.longitude)

\* a lookup that never finds the row
SelectByNotionId_none(rows, notion_id) == <<>>

\* table.select("id").eq("notion_id", id): the matching rows
RECURSIVE SelectByNotionId(_, _)
SelectByNotionId(rows, notion_id) ==
    IF rows = <<>> THEN <<>>
    ELSE (IF Head(rows).notion_id = notion_id THEN <<Head(rows)>> ELSE <<>>)
         \o SelectByNotionId(Tail(rows), notion_id)

\* an update that forgets the page id
UpdateByNotionId_unlinked(rows, notion_id, record) ==
    [k \in 1..Len(rows) |->
        IF rows[k].notion_id # notion_id THEN rows[k]
        ELSE [StoreRow(rows[k].id, record) EXCEPT !.notion_id = NoNum]]

\* table.update(supabase_data).eq("notion_id", id): every column of the record
\* is overwritten in the matching rows
UpdateByNotionId(rows, notion_id, record) ==
    [k \in 1..Len(rows) |->
        IF rows[k].notion_id # notion_id THEN rows[k]
        ELSE StoreRow(rows[k].id, record)]

\* a select without the filter
SelectUnsyncedRows_all(rows) == rows

\* table.select("*").is_("notion_id", "null"): the rows never pushed to Notion
RECURSIVE SelectUnsyncedRows(_)
SelectUnsyncedRows(rows) ==
    IF rows = <<>> THEN <<>>
    ELSE (IF Head(rows).notion_id = NoNum THEN <<Head(rows)>> ELSE <<>>)
         \o SelectUnsyncedRows(Tail(rows))

\* table.update({"notion_id": page_id}).eq("id", id)
SetNotionId(rows, id, page_id) ==
    [k \in 1..Len(rows) |->
        IF rows[k].id = id THEN [rows[k] EXCEPT !.notion_id = Num(page_id)] ELSE rows[k]]

\* full_sync: results = {}
SyncResults == [notion_to_supabase |-> <<>>, supabase_to_notion |-> <<>>]

\* sync_notion_to_supabase returns its stats; full_sync goes on to the second
\* phase
AfterNotionToSupabase == IF script = "full_sync" THEN "select_unsynced" ELSE "done"

\* sync_notion_to_supabase: the body of the loop for page i
SyncPage ==
    /\ script \in {"sync_to_supabase", "full_sync"} /\ pc = "page"
    /\ LET supabase_data == notion_to_supabase(valid_records[i])
           existing == SelectByNotionId(store, supabase_data.notion_id)
       IN  \E outcome \in {"select_raises", "write_raises", "ok"} :
            LET op == IF outcome = "select_raises" THEN "select"
                      ELSE IF existing # <<>> THEN "update" ELSE "insert"
                st == IF outcome # "ok" THEN CountError(stats)
                      ELSE IF existing # <<>> THEN CountUpdated(stats)
                      ELSE CountCreated(stats, 1)
            IN  /\ trace' = Append(trace, Event("sync_notion_to_supabase", op, i, i,
                                                outcome = "ok", stats, st))
                /\ store' = IF outcome # "ok" THEN store
                            ELSE IF existing # <<>>
                            THEN UpdateByNotionId(store, supabase_data.notion_id, supabase_data)
                            ELSE InsertAll(store, <<supabase_data>>)
                /\ IF i < Len(valid_records)
                   THEN /\ i' = i + 1
                        /\ stats' = st
                        /\ UNCHANGED <<pc, results>>
                   ELSE /\ results' = [results EXCEPT !.notion_to_supabase = <<st>>]
                        /\ pc' = AfterNotionToSupabase
                        /\ stats' = ZeroStats
                        /\ i' = 1
    /\ UNCHANGED <<callVars, script, csvArgs, valid_records, j, workspace, pagingVars, outcomes>>

\* sync_supabase_to_notion: the select of the rows without notion_id, which is
\* outside the per-record try: if it raises, the sync raises
SelectUnsynced ==
    /\ script \in {"sync_to_notion", "full_sync"} /\ pc = "select_unsynced"
    /\ \E ok \in BOOLEAN :
        IF ~ok
        THEN /\ pc' = "raised"
             /\ UNCHANGED <<valid_records, results, stats, i>>
        ELSE /\ valid_records' = SelectUnsyncedRows(store)
             /\ stats' = ZeroStats
             /\ i' = 1
             /\ IF SelectUnsyncedRows(store) # <<>>
                THEN /\ pc' = "push"
                     /\ UNCHANGED results
                ELSE /\ results' = [results EXCEPT !.supabase_to_notion = <<ZeroStats>>]
                     /\ pc' = "done"
    /\ UNCHANGED <<callVars, script, csvArgs, j, store, workspace, pagingVars, trace, outcomes>>

\* sync_supabase_to_notion: the body of the loop for row i: create the page,
\* then write its id back to the row
PushRecord ==
    /\ script \in {"sync_to_notion", "full_sync"} /\ pc = "push"
    /\ LET prop == valid_records[i]
           new_page == supabase_to_notion(workspace, prop)
       IN  \E outcome \in {"create_raises", "update_raises", "ok"} :
            LET st == IF outcome = "ok" THEN CountCreated(stats, 1) ELSE CountError(stats)
            IN  /\ trace' =
                     IF outcome = "create_raises"
                     THEN Append(trace, Event("sync_supabase_to_notion", "create_page",
                                              i, i, FALSE, stats, st))
                     ELSE trace \o <<Event("sync_supabase_to_notion", "create_page",
                                           i, i, TRUE, stats, stats),
                                     Event("sync_supabase_to_notion", "update",
                                           i, i, outcome = "ok", stats, st)>>
                /\ workspace' = IF outcome = "create_raises" THEN workspace
                                ELSE Append(workspace, new_page)
                /\ store' = IF outcome = "ok" THEN SetNotionId(store, prop.id, new_page.id)
                            ELSE store
                /\ IF i < Len(valid_records)
                   THEN /\ i' = i + 1
                        /\ stats' = st
                        /\ UNCHANGED <<pc, results>>
                   ELSE /\ results' = [results EXCEPT !.supabase_to_notion = <<st>>]
                        /\ pc' = "done"
                        /\ stats' = ZeroStats
                        /\ i' = 1
    /\ UNCHANGED <<callVars, script, csvArgs, valid_records, j, pagingVars, outcomes>>

\* the rows a table of the model holds before a sync: a row imported from a CSV
\* file and never pushed, and the row of page 1
UnsyncedRow(id) == StoreRow(id, transform_csv_record(RawRow(Oak, Ax, TX, Rate1, Office, NanCell, NanCell)))
LinkedRow(id) == StoreRow(id, notion_to_supabase(Page(1, Oak, Ax, TX, Rate1, <<Office>>, NoNum, NoNum)))

Tables(n) ==
    UNION {{[k \in 1..len |-> IF k = linked THEN LinkedRow(k) ELSE UnsyncedRow(k)] :
                linked \in 0..len} : len \in 0..n}

\* input keeps the table as the sync found it
InitSync ==
    /\ script \in {"sync_to_supabase", "sync_to_notion", "full_sync"}
    /\ pc = IF script = "sync_to_notion" THEN "select_unsynced" ELSE "query"
    /\ raw_records = <<>>
    /\ target = "both"
    /\ batch_size = 1
    /\ dry_run = FALSE
    /\ notion_configured = TRUE
    /\ results = SyncResults
    /\ valid_records = <<>>
    /\ stats = ZeroStats
    /\ i = 1
    /\ j = 1
    /\ workspace \in Databases(MaxPages)
    /\ store \in {t \in Tables(MaxStoreRows) :
                    \A k \in 1..Len(t) : t[k].notion_id # NoNum => workspace # <<>>}
    /\ properties = <<>>
    /\ has_more = TRUE
    /\ start_cursor = NoNum
    /\ queries = <<>>
    /\ trace = <<>>
    /\ outcomes = <<>>
    /\ input = store
    /\ output = <<>>

NextSync == QueryDatabase \/ ReturnProperties \/ SyncPage \/ SelectUnsynced \/ PushRecord

\* scripts/notion_supabase_sync.py alone
SpecSync == InitSync /\ [][NextSync]_vars

\* the drivers that write to a remote: process_csv_file and the syncs
InitDrivers == InitCsv \/ InitSync

NextDrivers == NextCsv \/ NextSync

SpecDrivers == InitDrivers /\ [][NextDrivers]_vars

\* every path that writes properties to the table: the one-file importers,
\* process_csv_file and the syncs
InitImports == InitRows \/ InitCsvRows \/ InitSync

NextImports == NextRows \/ NextCsv \/ NextSync

SpecImports == InitImports /\ [][NextImports]_vars

-----------------------------------------------------------------------------
(* scripts/csv_import.py: process_csv_file on a file of one row, the row
   ranging over every combination of acceptable and unacceptable cells *)

\* four characters after trimming
Abcd == <<"a", "b", "c", "d">>
PaddedAbcd == <<" ", "a", "b", "c", "d", " ">>

ValidateRows ==
    {RawRow(address, city, state, rate, Office, latitude, longitude) :
        address \in {NaN, <<>>, <<" ">>, Abcd, PaddedAbcd, Elm},
        city \in {NaN, Ax},
        state \in {<<>>, TX},
        rate \in {NaN, Rate1},
        latitude \in {NanCell, TextCell, NumCell(45), NumCell(95), NumCell(-91)},
        longitude \in {NanCell, NumCell(0), NumCell(181)}}

InitValidate ==
    /\ script = "csv_import"
    /\ pc = "read"
    /\ raw_records \in {<<row>> : row \in ValidateRows}
    /\ target = "both"
    /\ batch_size = 1
    /\ dry_run = FALSE
    /\ notion_configured = TRUE
    /\ results = InitialResults
    /\ valid_records = <<>>
    /\ stats = ZeroStats
    /\ i = 1
    /\ j = 1
    /\ store = <<>>
    /\ workspace = <<>>
    /\ properties = <<>>
    /\ has_more = TRUE
    /\ start_cursor = NoNum
    /\ queries = <<>>
    /\ trace = <<>>
    /\ outcomes = <<>>
    /\ input = <<>>
    /\ output = <<>>

SpecValidate == InitValidate /\ [][NextCsv]_vars

-----------------------------------------------------------------------------
(* scripts/csv_import.py: CSVFieldMapper *)

\* CSVFieldMapper.FIELD_MAPPINGS: the aliases of every canonical field, in
\* list order
FIELD_MAPPINGS ==
    [address |->
        <<<<"a", "d", "d", "r", "e", "s", "s">>,
          <<"s", "t", "r", "e", "e", "t", "_", "a", "d", "d", "r", "e", "s", "s">>,
          <<"s", "t", "r", "e", "e", "t">>,
          <<"p", "r", "o", "p", "e", "r", "t", "y", "_", "a", "d", "d", "r", "e", "s", "s">>,
          <<"a", "d", "d", "r">>>>,
     city |->
        <<<<"c", "i", "t", "y">>,
          <<"m", "u", "n", "i", "c", "i", "p", "a", "l", "i", "t", "y">>,
          <<"t", "o", "w", "n">>>>,
     state |->
        <<<<"s", "t", "a", "t", "e">>,
          <<"p", "r", "o", "v", "i", "n", "c", "e">>,
          <<"s", "t">>>>,
     zip_code |->
        <<<<"z", "i", "p">>,
          <<"z", "i", "p", "c", "o", "d", "e">>,
          <<"z", "i", "p", "_", "c", "o", "d", "e">>,
          <<"p", "o", "s", "t", "a", "l", "_", "c", "o", "d", "e">>,
          <<"p", "o", "s", "t", "a", "l">>>>,
     county |->
        <<<<"c", "o", "u", "n", "t", "y">>,
          <<"p", "a", "r", "i", "s", "h">>>>,
     building_types |->
        <<<<"b", "u", "i", "l", "d", "i", "n", "g", "_", "t", "y", "p", "e">>,
          <<"b", "u", "i", "l", "d", "i", "n", "g", "_", "t", "y", "p", "e", "s">>,
          <<"t", "y", "p", "e">>,
          <<"p", "r", "o", "p", "e", "r", "t", "y", "_", "t", "y", "p", "e">>,
          <<"a", "s", "s", "e", "t", "_", "t", "y", "p", "e">>>>,
     tenancy |->
        <<<<"t", "e", "n", "a", "n", "c", "y">>,
          <<"t", "e", "n", "a", "n", "t", "_", "t", "y", "p", "e">>,
          <<"o", "c", "c", "u", "p", "a", "n", "c", "y", "_", "t", "y", "p", "e">>>>,
     square_footage |->
        <<<<"s", "q", "u", "a", "r", "e", "_", "f", "o", "o", "t", "a", "g", "e">>,
          <<"s", "q", "_", "f", "t">>,
          <<"s", "q", "f", "t">>,
          <<"s", "i", "z", "e">>,
          <<"t", "o", "t", "a", "l", "_", "s", "q", "_", "f", "t">>,
          <<"r", "e", "n", "t", "a", "b", "l", "e", "_", "s", "f">>>>,
     number_of_suites |->
        <<<<"s", "u", "i", "t", "e", "s">>,
          <<"n", "u", "m", "b", "e", "r", "_", "o", "f", "_", "s", "u", "i", "t", "e", "s">>,
          <<"u", "n", "i", "t", "s">>,
          <<"n", "u", "m", "_", "s", "u", "i", "t", "e", "s">>>>,
     rate_text |->
        <<<<"r", "a", "t", "e">>,
          <<"r", "e", "n", "t">>,
          <<"r", "a", "t", "e", "_", "p", "e", "r", "_", "s", "f">>,
          <<"p", "r", "i", "c", "e", "_", "p", "e", "r", "_", "s", "f">>,
          <<"a", "s", "k", "i", "n", "g", "_", "r", "a", "t", "e">>>>,
     latitude |->
        <<<<"l", "a", "t", "i", "t", "u", "d", "e">>,
          <<"l", "a", "t">>,
          <<"y", "_", "c", "o", "o", "r", "d">>>>,
     longitude |->
        <<<<"l", "o", "n", "g", "i", "t", "u", "d", "e">>,
          <<"l", "n", "g">>,
          <<"l", "o", "n">>,
          <<"x", "_", "c", "o", "o", "r", "d">>>>,
     contact_name |->
        <<<<"c", "o", "n", "t", "a", "c", "t", "_", "n", "a", "m", "e">>,
          <<"c", "o", "n", "t", "a", "c", "t">>,
          <<"a", "g", "e", "n", "t", "_", "n", "a", "m", "e">>,
          <<"b", "r", "o", "k", "e", "r", "_", "n", "a", "m", "e">>>>,
     contact_email |->
        <<<<"c", "o", "n", "t", "a", "c", "t", "_", "e", "m", "a", "i", "l">>,
          <<"e", "m", "a", "i", "l">>,
          <<"a", "g", "e", "n", "t", "_", "e", "m", "a", "i", "l">>,
          <<"b", "r", "o", "k", "e", "r", "_", "e", "m", "a", "i", "l">>>>,
     contact_phone |->
        <<<<"c", "o", "n", "t", "a", "c", "t", "_", "p", "h", "o", "n", "e">>,
          <<"p", "h", "o", "n", "e">>,
          <<"a", "g", "e", "n", "t", "_", "p", "h", "o", "n", "e">>,
          <<"b", "r", "o", "k", "e", "r", "_", "p", "h", "o", "n", "e">>>>,
     description |->
        <<<<"d", "e", "s", "c", "r", "i", "p", "t", "i", "o", "n">>,
          <<"n", "o", "t", "e", "s">>,
          <<"c", "o", "m", "m", "e", "n", "t", "s">>,
          <<"d", "e", "t", "a", "i", "l", "s">>>>,
     year_built |->
        <<<<"y", "e", "a", "r", "_", "b", "u", "i", "l", "t">>,
          <<"b", "u", "i", "l", "t", "_", "y", "e", "a", "r">>,
          <<"c", "o", "n", "s", "t", "r", "u", "c", "t", "i", "o", "n", "_", "y", "e", "a", "r">>>>,
     parking_spaces |->
        <<<<"p", "a", "r", "k", "i", "n", "g">>,
          <<"p", "a", "r", "k", "i", "n", "g", "_", "s", "p", "a", "c", "e", "s">>,
          <<"p", "a", "r", "k", "i", "n", "g", "_", "s", "p", "o", "t", "s">>>>]

\* a mapper that resolves no field
map_csv_headers_none(csv_headers) == <<>>

\* CSVFieldMapper.map_csv_headers: for every canonical field the original
\* header at the first index whose lower-cased, stripped text is the first
\* alias found among the lower-cased, stripped headers
map_csv_headers(csv_headers) ==
    LET csv_headers_lower == [k \in 1..Len(csv_headers) |-> Strip(Lower(csv_headers[k]))]
        Found(possible_names) ==
            {n \in 1..Len(possible_names) :
                \E k \in 1..Len(csv_headers) :
                    csv_headers_lower[k] = Lower(possible_names[n])}
        IndexOf(name) == Min({k \in 1..Len(csv_headers) : csv_headers_lower[k] = name})
        mapped == {f \in DOMAIN FIELD_MAPPINGS : Found(FIELD_MAPPINGS[f]) # {}}
    IN  [standard_field \in mapped |->
            csv_headers[IndexOf(Lower(FIELD_MAPPINGS[standard_field]
                                        [Min(Found(FIELD_MAPPINGS[standard_field]))]))]]

StreetAddress == <<"S", "t", "r", "e", "e", "t", " ", "A", "d", "d", "r", "e", "s", "s">>
Muni == <<"M", "u", "n", "i">>
ST == <<"S", "T">>
City == <<"C", "i", "t", "y">>
PaddedCity == <<" ", "c", "i", "t", "y", " ">>
Street_Address == <<"S", "t", "r", "e", "e", "t", "_", "A", "d", "d", "r", "e", "s", "s">>
Town == <<"T", "O", "W", "N">>

\* the header texts a CSV file of the model can have
HeaderPool == {StreetAddress, Muni, ST, City, PaddedCity, Street_Address, Town}

\* the exceptions the value parsers meet
ValueError == "ValueError"
IndexError == "IndexError"

\* what int(s) raises
int_raises(s) == IF IsInt(s) THEN {} ELSE {ValueError}

\* what parts[k - 1] raises
index_raises(parts, k) == IF k <= Len(parts) THEN {} ELSE {IndexError}

\* what float(match.group(1)) raises: the group is a run of digits, a point and
\* digits, and float() takes it unless the run is empty
float_raises(whole) == IF whole = <<>> THEN {ValueError} ELSE {}

\* one statement after another: the second runs only if the first raised nothing
Then(first, second) == IF first # {} THEN first ELSE second

\* a try block with no handler lets everything through
except_ValueError_missing(raised) == raised

\* try: ... except ValueError: return None
except_ValueError(raised) == raised \ {ValueError}

\* try: ... except: return None, None (quick_setup.py)
except_all(raised) == {}

\* the exceptions that leave parse_square_footage of import_cre_data.py,
\* simple_csv_import.py and import_direct.py
parse_square_footage_escapes(sq_ft_text) ==
    IF Falsy(sq_ft_text) \/ Upper(sq_ft_text) = NA \/ Strip(sq_ft_text) = <<>>
    THEN {}
    ELSE LET cleaned == Without(sq_ft_text, {",", " "})
             parts == SplitOn(cleaned, {"-"})
         IN  IF Contains(cleaned, "-")
             THEN except_ValueError(
                      Then(index_raises(parts, 1),
                      Then(IF parts[1] # <<>> THEN int_raises(parts[1]) ELSE {},
                      Then(index_raises(parts, 2),
                           IF parts[2] # <<>> THEN int_raises(parts[2]) ELSE {}))))
             ELSE except_ValueError(int_raises(cleaned))

\* the exceptions that leave parse_square_footage of quick_setup.py
quick_setup_parse_square_footage_escapes(sq_ft_text) ==
    IF Falsy(sq_ft_text) \/ Upper(sq_ft_text) = NA
    THEN {}
    ELSE LET cleaned == Without(sq_ft_text, {",", " "})
             parts == SplitOn(cleaned, {"-"})
         IN  IF Contains(cleaned, "-")
             THEN except_all(
                      Then(index_raises(parts, 1),
                      Then(int_raises(parts[1]),
                      Then(index_raises(parts, 2), int_raises(parts[2])))))
             ELSE except_all(int_raises(cleaned))

\* the exceptions that leave PropertyDataTransformer.parse_square_footage
PropertyDataTransformer_parse_square_footage_escapes(sq_ft_text) ==
    IF Falsy(sq_ft_text) \/ Upper(sq_ft_text) \in {NA, TBD, <<>>}
    THEN {}
    ELSE LET cleaned == Without(sq_ft_text, {",", " "})
             parts == SplitOn(cleaned, {"-"})
         IN  IF Contains(cleaned, "-") /\ Len(parts) = 2
             THEN except_ValueError(
                      Then(index_raises(parts, 1),
                      Then(int_raises(parts[1]),
                      Then(index_raises(parts, 2), int_raises(parts[2])))))
             ELSE except_ValueError(int_raises(cleaned))

\* the digits before the point in the match of [0-9]+\.?[0-9]*
MatchedWhole(text) == DigitRun(text, Min({k \in 1..Len(text) : IsDigit(text[k])}))

\* the exceptions that leave parse_rate of import_cre_data.py
parse_rate_escapes(rate_text) ==
    IF Falsy(rate_text) \/ Upper(rate_text) = NA \/ Strip(rate_text) = <<>>
    THEN {}
    ELSE IF HasNumber(Without(rate_text, {","}))
         THEN except_ValueError(float_raises(MatchedWhole(Without(rate_text, {","}))))
         ELSE {}

\* the exceptions that leave parse_rate of simple_csv_import.py, import_direct.py
\* and quick_setup.py (a bare except: in quick_setup.py)
simple_csv_import_parse_rate_escapes(rate_text) ==
    IF Falsy(rate_text) \/ Upper(rate_text) = NA
    THEN {}
    ELSE IF HasNumber(Without(rate_text, {","}))
         THEN except_ValueError(float_raises(MatchedWhole(Without(rate_text, {","}))))
         ELSE {}

\* the exceptions that leave PropertyDataTransformer.parse_rate
PropertyDataTransformer_parse_rate_escapes(rate_text) ==
    IF Falsy(rate_text) \/ Upper(rate_text) \in {NA, TBD, <<>>}
    THEN {}
    ELSE IF HasNumber(Without(rate_text, {"$", ","}))
         THEN except_ValueError(
                  float_raises(MatchedWhole(Without(rate_text, {"$", ","}))))
         ELSE {}

\* the call returns its value, or an exception leaves it
Returns(value, escaping) ==
    /\ output' = IF escaping = {} THEN value ELSE <<>>
    /\ pc' = IF escaping = {} THEN "returned" ELSE "raised"

\* re.sub(r'\D', '', phone)
RECURSIVE OnlyDigits(_)
OnlyDigits(s) ==
    IF s = <<>> THEN <<>>
    ELSE (IF IsDigit(Head(s)) THEN <<Head(s)>> ELSE <<>>) \o OnlyDigits(Tail(s))

\* f"({d[:3]}) {d[3:6]}-{d[6:]}" for ten digits d
UsPhone(d) ==
    <<"(">> \o SubSeq(d, 1, 3) \o <<")", " ">> \o SubSeq(d, 4, 6) \o <<"-">>
        \o SubSeq(d, 7, Len(d))

\* DataValidator.clean_phone_number
clean_phone_number(phone) ==
    IF Falsy(phone) THEN <<>>
    ELSE LET digits == OnlyDigits(phone)
         IN  IF Len(digits) = 10 THEN UsPhone(digits)
             ELSE IF Len(digits) = 11 /\ digits[1] = "1" THEN UsPhone(Tail(digits))
             ELSE phone

\* the state every call of a mapper or parser starts in
InitCall(function, inputs) ==
    /\ script = function
    /\ pc = "call"
    /\ input \in inputs
    /\ output = <<>>
    /\ raw_records = <<>>
    /\ target = "both"
    /\ batch_size = 1
    /\ dry_run = FALSE
    /\ notion_configured = FALSE
    /\ results = InitialResults
    /\ valid_records = <<>>
    /\ stats = ZeroStats
    /\ i = 1
    /\ j = 1
    /\ store = <<>>
    /\ workspace = <<>>
    /\ properties = <<>>
    /\ has_more = TRUE
    /\ start_cursor = NoNum
    /\ queries = <<>>
    /\ trace = <<>>
    /\ outcomes = <<>>

\* what a call leaves alone
CallFrame ==
    UNCHANGED <<script, input, csvArgs, results, valid_records, stats, i, j, store,
                workspace, pagingVars, trace, outcomes>>

\* every short list of headers, and the list of three of the mapper's example
InitMapper ==
    InitCall("map_csv_headers",
             SeqsUpTo(HeaderPool, MaxHeaders) \cup {<<StreetAddress, Muni, ST>>})

\* field_mapping = CSVFieldMapper.map_csv_headers(headers)
MapCsvHeaders ==
    /\ script = "map_csv_headers" /\ pc = "call"
    /\ output' = map_csv_headers(input)
    /\ pc' = "returned"
    /\ CallFrame

SpecMapper == InitMapper /\ [][MapCsvHeaders]_vars

-----------------------------------------------------------------------------
(* The square-footage parsers *)

\* the characters square-footage texts are made of: digits, the range
\* separator, the characters the parsers remove, and a letter
SqFtChars == {"1", "2", "-", ",", " ", "x"}

\* every short text over these characters, and the texts the parsers name
SqFtTexts ==
    SeqsUpTo(SqFtChars, MaxSqFtLen)
    \cup {NA, Lower(NA), TBD,
          <<"1", ",", "0", "0", "0", " ", "-", " ", "4", "5", ",", "0", "0", "0">>,
          <<"1", "-", "2", "-", "3">>,
          <<"1", "-", "2", "-", "x">>}

\* the copies of parse_square_footage that are the same text
SameSquareFootageParsers ==
    {"import_cre_data.parse_square_footage",
     "simple_csv_import.parse_square_footage",
     "import_direct.parse_square_footage"}

SquareFootageParsers ==
    SameSquareFootageParsers
    \cup {"quick_setup.parse_square_footage",
          "PropertyDataTransformer.parse_square_footage"}

InitSquareFootage ==
    \E parser \in SquareFootageParsers : InitCall(parser, SqFtTexts)

\* sq_ft_min, sq_ft_max = parse_square_footage(...) in import_cre_data.py,
\* simple_csv_import.py and import_direct.py
ParseSquareFootage ==
    /\ script \in SameSquareFootageParsers /\ pc = "call"
    /\ Returns(parse_square_footage(input), parse_square_footage_escapes(input))
    /\ CallFrame

\* sq_ft_min, sq_ft_max = parse_square_footage(...) in quick_setup.py
QuickSetupParseSquareFootage ==
    /\ script = "quick_setup.parse_square_footage" /\ pc = "call"
    /\ Returns(quick_setup_parse_square_footage(input), quick_setup_parse_square_footage_escapes(input))
    /\ CallFrame

\* sq_ft_min, sq_ft_max = cls.parse_square_footage(...) in notion_to_supabase
TransformerParseSquareFootage ==
    /\ script = "PropertyDataTransformer.parse_square_footage" /\ pc = "call"
    /\ Returns(PropertyDataTransformer_parse_square_footage(input), PropertyDataTransformer_parse_square_footage_escapes(input))
    /\ CallFrame

NextSquareFootage ==
    ParseSquareFootage \/ QuickSetupParseSquareFootage \/ TransformerParseSquareFootage

SpecSquareFootage == InitSquareFootage /\ [][NextSquareFootage]_vars

-----------------------------------------------------------------------------
(* The rate parsers *)

\* the characters rate texts are made of: digits, the decimal point, the
\* minus sign, the characters the parsers remove, and a letter
RateChars == {"1", "5", ".", "-", "$", ",", "x"}

\* "$45.50/sq ft/year"
RatePerYear ==
    <<"$", "4", "5", ".", "5", "0", "/", "s", "q", " ", "f", "t", "/", "y", "e", "a", "r">>

\* every short text over these characters, and the texts the parsers name
RateTexts == SeqsUpTo(RateChars, MaxRateLen) \cup {RatePerYear, NA, Lower(NA), TBD}

\* the copies of parse_rate that are the same text
SameRateParsers ==
    {"simple_csv_import.parse_rate", "import_direct.parse_rate", "quick_setup.parse_rate"}

RateParsers ==
    SameRateParsers
    \cup {"import_cre_data.parse_rate", "PropertyDataTransformer.parse_rate"}

InitRate == \E parser \in RateParsers : InitCall(parser, RateTexts)

\* rate_numeric = parse_rate(...) in import_cre_data.py
ParseRate ==
    /\ script = "import_cre_data.parse_rate" /\ pc = "call"
    /\ Returns(parse_rate(input), parse_rate_escapes(input))
    /\ CallFrame

\* rate_numeric = parse_rate(...) in simple_csv_import.py, import_direct.py and
\* quick_setup.py
SimpleParseRate ==
    /\ script \in SameRateParsers /\ pc = "call"
    /\ Returns(simple_csv_import_parse_rate(input), simple_csv_import_parse_rate_escapes(input))
    /\ CallFrame

\* rate_per_sqft = cls.parse_rate(...) in notion_to_supabase
TransformerParseRate ==
    /\ script = "PropertyDataTransformer.parse_rate" /\ pc = "call"
    /\ Returns(PropertyDataTransformer_parse_rate(input), PropertyDataTransformer_parse_rate_escapes(input))
    /\ CallFrame

NextRate == ParseRate \/ SimpleParseRate \/ TransformerParseRate

SpecRate == InitRate /\ [][NextRate]_vars

-----------------------------------------------------------------------------
(* The building-type parsers *)

\* the characters building-type texts are made of: letters of both cases, two
\* of the separators, and whitespace
TypesChars == {"a", "B", ",", ";", " "}

\* "office/retail|office"
OfficeRetailOffice ==
    <<"o", "f", "f", "i", "c", "e", "/", "r", "e", "t", "a", "i", "l", "|",
      "o", "f", "f", "i", "c", "e">>

\* every short text over these characters, and one with the other separators
TypesTexts == SeqsUpTo(TypesChars, MaxTypesLen) \cup {OfficeRetailOffice}

\* the copies of parse_building_types that are the same text
SameBuildingTypeParsers ==
    {"import_cre_data.parse_building_types",
     "simple_csv_import.parse_building_types",
     "import_direct.parse_building_types"}

BuildingTypeParsers ==
    SameBuildingTypeParsers
    \cup {"quick_setup.parse_building_types", "DataValidator.clean_building_types"}

InitBuildingTypes == \E parser \in BuildingTypeParsers : InitCall(parser, TypesTexts)

\* self.validator.clean_building_types(str(value)) in transform_csv_record
CleanBuildingTypes ==
    /\ script = "DataValidator.clean_building_types" /\ pc = "call"
    /\ output' = clean_building_types(input)
    /\ pc' = "returned"
    /\ CallFrame

\* building_types = parse_building_types(...) in import_cre_data.py,
\* simple_csv_import.py and import_direct.py
ParseBuildingTypes ==
    /\ script \in SameBuildingTypeParsers /\ pc = "call"
    /\ output' = parse_building_types(input)
    /\ pc' = "returned"
    /\ CallFrame

\* building_types = parse_building_types(...) in quick_setup.py
QuickSetupParseBuildingTypes ==
    /\ script = "quick_setup.parse_building_types" /\ pc = "call"
    /\ output' = quick_setup_parse_building_types(input)
    /\ pc' = "returned"
    /\ CallFrame

NextBuildingTypes ==
    CleanBuildingTypes \/ ParseBuildingTypes \/ QuickSetupParseBuildingTypes

SpecBuildingTypes == InitBuildingTypes /\ [][NextBuildingTypes]_vars

-----------------------------------------------------------------------------
(* The coordinate validators, called on their own *)

\* latitudes and longitudes on both sides of each limit, and a missing one
Coordinates ==
    {NoNum} \cup {Num(n) : n \in {-200, -181, -180, -122, -91, -90, 0, 37, 45,
                                  90, 91, 180, 181}}

CoordinateValidators ==
    {"DataValidator.validate_coordinates", "import_cre_data.validate_coordinates"}

InitCoordinates ==
    \E validator \in CoordinateValidators :
        InitCall(validator, Coordinates \X Coordinates)

\* DataValidator.validate_coordinates(lat, lng) in validate_record
ValidateCoordinates ==
    /\ script = "DataValidator.validate_coordinates" /\ pc = "call"
    /\ output' = validate_coordinates(input[1], input[2])
    /\ pc' = "returned"
    /\ CallFrame

\* validate_coordinates(lat, lng) in import_cre_data.py
ImportCreDataValidateCoordinates ==
    /\ script = "import_cre_data.validate_coordinates" /\ pc = "call"
    /\ output' = import_cre_data_validate_coordinates(input[1], input[2])
    /\ pc' = "returned"
    /\ CallFrame

NextCoordinates == ValidateCoordinates \/ ImportCreDataValidateCoordinates

SpecCoordinates == InitCoordinates /\ [][NextCoordinates]_vars

-----------------------------------------------------------------------------
(* The phone formatter, and every value parser called on its own *)

MaxPhoneLen == 3

PhoneChars == {"1", "5", "-", " ", "x"}

TenDigits == <<"5", "5", "5", "1", "2", "3", "4", "5", "6", "7">>

\* every short text over these characters, and numbers of ten and eleven digits
PhoneTexts ==
    SeqsUpTo(PhoneChars, MaxPhoneLen)
    \cup {TenDigits, <<"1">> \o TenDigits, <<"2">> \o TenDigits,
          <<"5", "5", "5", "-", "1", "2", "3", "-", "4", "5", "6", "7">>,
          UsPhone(TenDigits), <<"+", "1", " ">> \o UsPhone(TenDigits)}

InitPhone == InitCall("DataValidator.clean_phone_number", PhoneTexts)

\* DataValidator.clean_phone_number(phone)
CleanPhoneNumber ==
    /\ script = "DataValidator.clean_phone_number" /\ pc = "call"
    /\ output' = clean_phone_number(input)
    /\ pc' = "returned"
    /\ CallFrame

ValueParsers ==
    SquareFootageParsers \cup RateParsers \cup BuildingTypeParsers
        \cup CoordinateValidators \cup {"DataValidator.clean_phone_number"}

InitParsers ==
    InitSquareFootage \/ InitRate \/ InitBuildingTypes \/ InitCoordinates \/ InitPhone

NextParsers ==
    \/ NextSquareFootage
    \/ NextRate
    \/ NextBuildingTypes
    \/ NextCoordinates
    \/ CleanPhoneNumber

SpecParsers == InitParsers /\ [][NextParsers]_vars

-----------------------------------------------------------------------------
(* The table self-tests: test_table.py and create_supabase_table.py *)

SelfTests == {"test_table", "create_supabase_table"}

TEST == <<"T", "E", "S", "T">>
TEST_ADDRESS == TEST \o <<" ", "A", "D", "D", "R", "E", "S", "S">>
TEST_CITY == TEST \o <<" ", "C", "I", "T", "Y">>
TEST_RATE == TEST \o <<" ", "R", "A", "T", "E">>

\* test_data of test_table.test_table and of create_supabase_table.main; the
\* columns it does not name take the table's default, null
test_data(test) ==
    [notion_id |-> NoNum,
     address |-> IF test = "test_table" THEN TEST_ADDRESS ELSE TEST,
     city |-> IF test = "test_table" THEN TEST_CITY ELSE TEST,
     state |-> TX,
     rate_text |-> IF test = "test_table" THEN TEST_RATE ELSE TEST,
     building_types |-> <<Office>>,
     latitude |-> NoNum, longitude |-> NoNum]

\* table.delete().eq("id", id)
RECURSIVE DeleteById(_, _)
DeleteById(rows, id) ==
    IF rows = <<>> THEN <<>>
    ELSE (IF Head(rows).id = id THEN <<>> ELSE <<Head(rows)>>)
         \o DeleteById(Tail(rows), id)

\* table.delete().eq("address", address)
RECURSIVE DeleteByAddress(_, _)
DeleteByAddress(rows, address) ==
    IF rows = <<>> THEN <<>>
    ELSE (IF Head(rows).address = address THEN <<>> ELSE <<Head(rows)>>)
         \o DeleteByAddress(Tail(rows), address)

\* the rows a table can hold before a self-test: imported properties and what
\* an earlier self-test left behind
EarlierRows ==
    {transform_csv_record(RawRow(Oak, Ax, TX, Rate1, Office, NanCell, NanCell)),
     transform_csv_record(RawRow(Elm, Ax, TX, Rate2, Office, NanCell, NanCell)),
     test_data("test_table"), test_data("create_supabase_table")}

EarlierTables ==
    UNION {{[k \in 1..len |-> StoreRow(k, records[k])] :
                records \in [1..len -> EarlierRows]} : len \in 0..MaxStoreRows}

\* the self-test is about to make its first request; input keeps the table as
\* the self-test found it
InitSelfTest ==
    /\ script \in SelfTests
    /\ pc = "access"
    /\ store \in EarlierTables
    /\ input = store
    /\ output = <<>>
    /\ raw_records = <<>>
    /\ target = "supabase"
    /\ batch_size = 1
    /\ dry_run = FALSE
    /\ notion_configured = FALSE
    /\ results = InitialResults
    /\ valid_records = <<>>
    /\ stats = ZeroStats
    /\ i = 1
    /\ j = 0
    /\ workspace = <<>>
    /\ properties = <<>>
    /\ has_more = TRUE
    /\ start_cursor = NoNum
    /\ queries = <<>>
    /\ trace = <<>>
    /\ outcomes = <<>>

SelfTestFrame ==
    UNCHANGED <<script, input, csvArgs, results, valid_records, stats, i,
                workspace, pagingVars, trace, outcomes>>

\* supabase.table('cre_properties').select('count').execute(): test_table goes
\* on when it answers and gives up when it raises; create_supabase_table.main
\* returns True when it answers (test_table_access) and goes on when it raises
SelectCount ==
    /\ script \in SelfTests /\ pc = "access"
    /\ \E ok \in BOOLEAN :
          IF ok = (script = "test_table")
          THEN pc' = "insert" /\ output' = output
          ELSE pc' = "returned" /\ output' = ok
    /\ UNCHANGED <<store, j>>
    /\ SelfTestFrame

\* insert_result = supabase.table('cre_properties').insert(test_data).execute()
\* and test_id = insert_result.data[0]['id']
InsertTestRecord ==
    /\ script \in SelfTests /\ pc = "insert"
    /\ \E ok \in BOOLEAN :
          IF ok
          THEN /\ store' = Append(store, StoreRow(NewId(store), test_data(script)))
               /\ j' = NewId(store)
               /\ pc' = "delete"
               /\ output' = output
          ELSE /\ pc' = "returned"
               /\ output' = FALSE
               /\ UNCHANGED <<store, j>>
    /\ SelfTestFrame

\* the clean-up: .delete().eq('id', test_id) in test_table and
\* .delete().eq('address', 'TEST') in create_supabase_table.main
DeleteTestRecord ==
    /\ script \in SelfTests /\ pc = "delete"
    /\ \E ok \in BOOLEAN :
          IF ok
          THEN /\ store' = IF script = "test_table"
                           THEN DeleteById(store, j)
                           ELSE DeleteByAddress(store, TEST)
               /\ output' = TRUE
          ELSE /\ store' = store
               /\ output' = FALSE
    /\ pc' = "returned"
    /\ j' = j
    /\ SelfTestFrame

NextSelfTest == SelectCount \/ InsertTestRecord \/ DeleteTestRecord

SpecSelfTest == InitSelfTest /\ [][NextSelfTest]_vars

-----------------------------------------------------------------------------
(* A sync direction run twice: main() of notion_supabase_sync.py, again *)

\* what a run leaves for the next to be compared with: its counters, the list
\* it walked, the number of rows of the table and of operations so far
RunRecord ==
    [results |-> results, records |-> valid_records, rows |-> Len(store),
     events |-> Len(trace)]

\* the run has returned and the same direction is started a second time, with a
\* new CREDataSync: the table and the workspace are as the first run left them
SyncAgain ==
    /\ script \in {"sync_to_supabase", "sync_to_notion"} /\ pc = "done"
    /\ j = 1
    /\ j' = 2
    /\ outcomes' = Append(outcomes, RunRecord)
    /\ results' = SyncResults
    /\ valid_records' = <<>>
    /\ stats' = ZeroStats
    /\ i' = 1
    /\ properties' = <<>>
    /\ has_more' = TRUE
    /\ start_cursor' = NoNum
    /\ queries' = <<>>
    /\ pc' = IF script = "sync_to_notion" THEN "select_unsynced" ELSE "query"
    /\ UNCHANGED <<callVars, script, csvArgs, store, workspace, trace>>

InitResync == InitSync /\ script \in {"sync_to_supabase", "sync_to_notion"}

NextResync == NextSync \/ SyncAgain

SpecResync == InitResync /\ [][NextResync]_vars

-----------------------------------------------------------------------------
(* get_all_properties against a remote that may answer anything *)

\* the answers a remote can give to query_database(cursor): the pages from the
\* cursor on, with any has_more flag and any next_cursor
Responses(pages, cursor) ==
    {[results |-> QueryResponse(pages, cursor).results,
      has_more |-> more, next_cursor |-> next] :
         more \in BOOLEAN, next \in {NoNum} \cup {Num(n) : n \in 1..MaxPages}}

\* one turn of the while loop of get_all_properties; outcomes keeps the
\* responses and queries the cursors sent (the model stops the loop after
\* MaxPages + 2 queries)
QueryRemote ==
    /\ script = "NotionClient.get_all_properties" /\ pc = "query"
    /\ has_more
    /\ Len(queries) < MaxPages + 2
    /\ queries' = Append(queries, start_cursor)
    /\ \E ok \in BOOLEAN :
        IF ok
        THEN \E response \in Responses(workspace, start_cursor) :
                 /\ properties' = properties \o response.results
                 /\ has_more' = HasMore(response)
                 /\ start_cursor' = NextCursor(response)
                 /\ outcomes' = Append(outcomes, response)
                 /\ UNCHANGED pc
        ELSE /\ pc' = "raised"
             /\ UNCHANGED <<properties, has_more, start_cursor, outcomes>>
    /\ UNCHANGED <<callVars, script, csvArgs, results, valid_records, stats, i, j, store,
                   workspace, trace>>

\* the loop is over: return properties
ReturnFromRemote ==
    /\ script = "NotionClient.get_all_properties" /\ pc = "query"
    /\ ~has_more
    /\ pc' = "returned"
    /\ UNCHANGED <<callVars, script, csvArgs, results, valid_records, stats, i, j, store,
                   workspace, pagingVars, trace, outcomes>>

InitRemote ==
    /\ script = "NotionClient.get_all_properties"
    /\ pc = "query"
    /\ raw_records = <<>>
    /\ target = "supabase"
    /\ batch_size = 1
    /\ dry_run = FALSE
    /\ notion_configured = TRUE
    /\ results = InitialResults
    /\ valid_records = <<>>
    /\ stats = ZeroStats
    /\ i = 1
    /\ j = 1
    /\ store = <<>>
    /\ workspace \in Databases(MaxPages)
    /\ properties = <<>>
    /\ has_more = TRUE
    /\ start_cursor = NoNum
    /\ queries = <<>>
    /\ trace = <<>>
    /\ outcomes = <<>>
    /\ input = <<>>
    /\ output = <<>>

NextRemote == QueryRemote \/ ReturnFromRemote

SpecRemote == InitRemote /\ [][NextRemote]_vars

-----------------------------------------------------------------------------
(* Claims *)

SameKey(a, b) == a.address = b.address /\ a.city = b.city

RecordOps == {"select", "update", "insert"}

\* the failed batch insert at position p of the trace is still being walked
Walking(p) == pc = "fallback" /\ i = trace[p].lo /\ p + (j - i) = Len(trace)

\* C1: whenever table.insert(batch) of a batch of n records fails, the driver
\* then handles every one of the n records on its own, in order, each by one
\* lookup-then-write, and each adds exactly one to created + updated + errors,
\* so that the batch adds exactly n
C1_FallbackCoversBatch ==
    \A p \in 1..Len(trace) :
        (trace[p].driver = "import_to_supabase"
         /\ trace[p].op = "insert_batch" /\ ~trace[p].ok)
        => LET e == trace[p]
               n == e.hi - e.lo + 1
               walked == IF Walking(p) THEN j - i ELSE n
           IN  /\ Total(e.after) = Total(e.before)
               /\ p + walked <= Len(trace)
               /\ \A k \in 1..walked :
                    /\ trace[p + k].driver = "import_to_supabase"
                    /\ trace[p + k].op \in RecordOps
                    /\ trace[p + k].lo = e.lo + k - 1
                    /\ trace[p + k].hi = e.lo + k - 1
                    /\ Total(trace[p + k].after) = Total(e.before) + k

\* C1 witness: a batch of three records failed, its three records were then
\* handled one by one with all three outcomes, and the driver has returned
C1_Witness ==
    /\ script = "csv_import" /\ pc = "done"
    /\ Len(trace) = 4
    /\ trace[1].op = "insert_batch" /\ ~trace[1].ok /\ trace[1].hi - trace[1].lo = 2
    /\ trace[2].op = "insert" /\ trace[2].ok
    /\ trace[3].op = "update" /\ trace[3].ok
    /\ trace[4].op = "select" /\ ~trace[4].ok
    /\ results.supabase_stats = <<[created |-> 1, updated |-> 1, errors |-> 1, skipped |-> 0]>>

\* C2: given two valid records with the same address and city and different
\* rate text, the second is an update, not a second create: one store row for
\* that key
C2_SecondSameKeyRecordUpdates ==
    (/\ script = "csv_import"
     /\ Len(valid_records) = 2
     /\ SameKey(valid_records[1], valid_records[2])
     /\ valid_records[1].rate_text # valid_records[2].rate_text
     /\ results.supabase_stats # <<>>
     /\ results.supabase_stats[1].errors = 0)
    => /\ results.supabase_stats[1].created = 1
       /\ results.supabase_stats[1].updated = 1
       /\ Cardinality({k \in 1..Len(store) : SameKey(store[k], valid_records[1])}) = 1

\* C4: with dry_run the file is read, transformed and validated, and nothing is
\* written: no insert, update or page creation is issued, the table and the
\* workspace are untouched, supabase_stats and notion_stats stay null
C4_DryRunWritesNothing ==
    (script = "csv_import" /\ dry_run)
    => /\ trace = <<>>
       /\ store = <<>>
       /\ workspace = <<>>
       /\ results.supabase_stats = <<>>
       /\ results.notion_stats = <<>>
       /\ (pc = "done" /\ results.errors # <<[row |-> 0, errors |-> <<"Fatal error">>]>>)
          => /\ results.total_records = Len(raw_records)
             /\ results.valid_records + results.invalid_records = Len(raw_records)
             /\ results.valid_records = Len(valid_records)

\* C5: get_all_properties returns the pages of every response, in order, none
\* left out and none twice: the whole database; it sends one query per
\* response page, however many there are, the first without cursor
C5_ReturnsEveryPageInOrder ==
    script = "get_all_properties"
    => /\ Len(properties) <= Len(workspace)
       /\ properties = SubSeq(workspace, 1, Len(properties))
       /\ pc = "returned"
          => /\ properties = workspace
             /\ Len(queries) * PageSize >= Len(workspace)
             /\ (Len(queries) - 1) * PageSize < Len(workspace) \/ Len(queries) = 1

\* C5 witness: the loop has returned after following three queries
C5_Witness ==
    /\ script = "get_all_properties" /\ pc = "returned"
    /\ Len(queries) >= 3
    /\ Len(properties) >= 2 * PageSize + 1

\* C6: the page-follow loop of get_all_properties over a finite database
\* always ends (by returning, or by the exception of a failed query)
C6_LoopTerminates == <>(pc \in {"returned", "raised"})

\* C6 witness: the loop has ended by returning after more than one query
C6_Witness ==
    /\ script = "get_all_properties" /\ pc = "returned"
    /\ ~has_more
    /\ Len(queries) >= 2
    /\ start_cursor = NoNum

\* the counters count the failure of the operation
FailureCounted(e) == e.after.errors = e.before.errors + 1

\* the second write of sync_supabase_to_notion for a record: the write-back of
\* the page id
IsWriteBack(e) == e.driver = "sync_supabase_to_notion" /\ e.op = "update"

IsFailedBatch(e) == e.op = "insert_batch" /\ ~e.ok

\* the number of records of its list that driver d has settled (written, or
\* counted as an error) in the first n operations of the trace
RECURSIVE SettledBy(_, _)
SettledBy(d, n) ==
    IF n = 0 THEN 0
    ELSE SettledBy(d, n - 1)
         + (IF trace[n].driver = d /\ ~IsWriteBack(trace[n]) /\ ~IsFailedBatch(trace[n])
            THEN trace[n].hi - trace[n].lo + 1 ELSE 0)

\* every operation of a driver carries the records that follow, in source
\* order, the ones the driver has settled: none skipped, none twice
InSourceOrder ==
    \A p \in 1..Len(trace) :
        LET e == trace[p]
            settled == SettledBy(e.driver, p - 1)
        IN  IF IsWriteBack(e)
            THEN e.lo = settled /\ e.hi = settled
            ELSE e.lo = settled + 1 /\ e.hi >= e.lo

\* a driver that has returned has settled every record of its list
AllAttempted ==
    /\ (script = "csv_import" /\ results.supabase_stats # <<>>)
       => SettledBy("import_to_supabase", Len(trace)) = Len(valid_records)
    /\ (script = "csv_import" /\ results.notion_stats # <<>>)
       => SettledBy("import_to_notion", Len(trace)) = Len(valid_records)
    /\ (script \in {"sync_to_supabase", "full_sync"} /\ results.notion_to_supabase # <<>>)
       => SettledBy("sync_notion_to_supabase", Len(trace)) = Len(properties)
    /\ (script \in {"sync_to_notion", "full_sync"} /\ results.supabase_to_notion # <<>>)
       => SettledBy("sync_supabase_to_notion", Len(trace)) = Len(valid_records)

C3_NoRecordDroppedSilently ==
    \A k \in 1..Len(outcomes) :
        ~outcomes[k].written => outcomes[k].counted /\ outcomes[k].message

\* C8: no row of the property store has an empty or missing address, city or
\* state, whichever import or sync path wrote it
C8_NoRowWithoutAddressCityState ==
    \A k \in 1..Len(store) :
        ~Falsy(store[k].address) /\ ~Falsy(store[k].city) /\ ~Falsy(store[k].state)

\* latitude in [-90, 90] and longitude in [-180, 180]
InRange(lat, lng) ==
    -90 <= lat[1] /\ lat[1] <= 90 /\ -180 <= lng[1] /\ lng[1] <= 180

\* C9: every written row has latitude and longitude both present and in range,
\* or both null
C9_CoordinatePairWholeOrNull ==
    \A k \in 1..Len(store) :
        \/ store[k].latitude = NoNum /\ store[k].longitude = NoNum
        \/ /\ store[k].latitude # NoNum /\ store[k].longitude # NoNum
           /\ InRange(store[k].latitude, store[k].longitude)

\* C10: the building_types of every record an import or sync path produces is
\* a non-empty list
C10_BuildingTypesNeverEmpty ==
    \A k \in 1..Len(store) : store[k].building_types # <<>>

\* C4 witness: a dry run over a file with valid and invalid rows has returned
C4_Witness ==
    /\ script = "csv_import" /\ dry_run /\ pc = "done"
    /\ target = "both" /\ notion_configured
    /\ results.valid_records >= 2
    /\ results.invalid_records >= 1

\* the outer except of process_csv_file has recorded a fatal error
FatalError == \E k \in 1..Len(results.errors) : results.errors[k].row = 0

\* the 1-based indices of the rows of the file that do not validate
InvalidRows ==
    {k \in 1..Len(raw_records) :
        validate_record(transform_csv_record(raw_records[k])) # <<>>}

\* C11: when process_csv_file gets past validation without a fatal error,
\* valid_records + invalid_records = total_records and the errors list holds
\* exactly one message per invalid record, tagged with its 1-based row index,
\* in source order
C11_CountersAndMessagesCoverEveryRow ==
    (script = "csv_import" /\ pc # "read" /\ ~FatalError) =>
        /\ results.total_records = Len(raw_records)
        /\ results.valid_records + results.invalid_records = results.total_records
        /\ Len(results.errors) = results.invalid_records
        /\ {results.errors[k].row : k \in 1..Len(results.errors)} = InvalidRows
        /\ \A k \in 1..Len(results.errors) : \A l \in 1..Len(results.errors) :
               k < l => results.errors[k].row < results.errors[l].row
        /\ \A k \in 1..Len(results.errors) : results.errors[k].errors # <<>>

\* C11 witness: a file of three rows, the first and the last invalid, has been
\* processed to the end
C11_Witness ==
    /\ script = "csv_import" /\ pc = "done" /\ ~dry_run
    /\ results.total_records = 3 /\ results.valid_records = 1
    /\ Len(results.errors) = 2
    /\ results.errors[1].row = 1 /\ results.errors[2].row = 3


\* a field of a record that is present and non-empty
Present(v) == v # None /\ v # <<>>

\* the rules of the strict importer a record violates: a missing required
\* field, an address shorter than five characters after trimming, a complete
\* coordinate pair out of range
ViolatedRules(record) ==
    {f \in {"address", "city", "state", "rate_text"} : ~Present(record[f])}
    \cup (IF Present(record.address) /\ Len(Strip(record.address)) < 5
          THEN {"address format"} ELSE {})
    \cup (IF record.latitude # NoNum /\ record.longitude # NoNum
             /\ ~InRange(record.latitude, record.longitude)
          THEN {"coordinates"} ELSE {})

\* C12: validate_record accepts a record iff address, city, state and
\* rate_text are present and non-empty, the trimmed address has at least five
\* characters and the coordinate pair passes validate_coordinates; an invalid
\* record gets one message per violated rule and is never passed to a write
C12_ValidateRecordAcceptsIffRulesHold ==
    (script = "csv_import" /\ pc # "read" /\ ~FatalError /\ Len(raw_records) = 1) =>
        LET record == transform_csv_record(raw_records[1])
        IN  /\ results.valid_records = 1 <=> ViolatedRules(record) = {}
            /\ results.invalid_records = 1 <=> ViolatedRules(record) # {}
            /\ ViolatedRules(record) # {} =>
                  /\ Len(results.errors) = 1
                  /\ Len(results.errors[1].errors) = Cardinality(ViolatedRules(record))
                  /\ valid_records = <<>>
                  /\ trace = <<>> /\ store = <<>> /\ workspace = <<>>

\* C12 witness: a row whose address has four characters after trimming and
\* whose longitude is out of range has been rejected with two messages
C12_Witness ==
    /\ script = "csv_import" /\ pc = "done"
    /\ raw_records = <<RawRow(PaddedAbcd, Ax, TX, Rate1, Office, NumCell(45), NumCell(181))>>
    /\ results.invalid_records = 1
    /\ results.errors[1].errors = <<"Invalid address format", "Invalid coordinates">>
    /\ store = <<>> /\ workspace = <<>>


\* no remote operation of the given driver was attempted
NeverRan(driver) == \A k \in 1..Len(trace) : trace[k].driver # driver

\* C13: with target 'supabase' no Notion write is issued, with target 'notion'
\* no property-store write is issued, and no write at all is issued when there
\* is no valid record or, for Notion, when the Notion importer is not configured
C13_TargetSelectorRestrictsWrites ==
    script = "csv_import" =>
        /\ target = "supabase" =>
              /\ NeverRan("import_to_notion") /\ workspace = <<>>
              /\ results.notion_stats = <<>>
        /\ target = "notion" =>
              /\ NeverRan("import_to_supabase") /\ store = <<>>
              /\ results.supabase_stats = <<>>
        /\ ~notion_configured =>
              /\ NeverRan("import_to_notion") /\ workspace = <<>>
              /\ results.notion_stats = <<>>
        /\ (pc # "read" /\ valid_records = <<>>) =>
              trace = <<>> /\ store = <<>> /\ workspace = <<>>

\* C13 witness: an import with target 'notion' has created two pages and
\* touched no table row
C13_Witness ==
    /\ script = "csv_import" /\ pc = "done" /\ target = "notion"
    /\ Len(workspace) = 2 /\ Len(valid_records) = 2
    /\ store = <<>> /\ Len(trace) = 2


\* C14: map_csv_headers on ["Street Address", "Muni", "ST"] returns a mapping
\* with address -> "Street Address", city -> "Muni" and state -> "ST"
C14_ResolvesStreetAddressMuniST ==
    (script = "map_csv_headers" /\ pc = "returned" /\ input = <<StreetAddress, Muni, ST>>) =>
        /\ {"address", "city", "state"} \subseteq DOMAIN output
        /\ output["address"] = StreetAddress
        /\ output["city"] = Muni
        /\ output["state"] = ST

\* the index of the earliest alias of a canonical field that is among the
\* given header keys, 0 when there is none
EarliestAlias(field, keys) ==
    LET found == {n \in 1..Len(FIELD_MAPPINGS[field]) :
                     \E k \in 1..Len(keys) : keys[k] = FIELD_MAPPINGS[field][n]}
    IN  IF found = {} THEN 0 ELSE Min(found)

\* the mapping gives every canonical field an original header whose key is the
\* field's earliest matching alias, and leaves out the fields with no match
FirstMatchWins(headers, keys, mapping) ==
    \A field \in DOMAIN FIELD_MAPPINGS :
        IF EarliestAlias(field, keys) = 0
        THEN field \notin DOMAIN mapping
        ELSE /\ field \in DOMAIN mapping
             /\ \E k \in 1..Len(headers) :
                    /\ headers[k] = mapping[field]
                    /\ keys[k] = FIELD_MAPPINGS[field][EarliestAlias(field, keys)]

\* the orders a list of n headers can be given in
Orders(n) == {p \in [1..n -> 1..n] : \A a \in 1..n : \A b \in 1..n : a # b => p[a] # p[b]}

\* when no two header keys are equal, the mapper returns the given mapping for
\* every order of the headers
SameForEveryOrder(headers, keys, mapping) ==
    (\A k \in 1..Len(keys) : \A l \in 1..Len(keys) : k # l => keys[k] # keys[l]) =>
        \A p \in Orders(Len(headers)) :
            map_csv_headers([k \in 1..Len(headers) |-> headers[p[k]]]) = mapping

\* C15 as stated: every canonical field maps to the original header that
\* equals, ignoring case, the earliest alias that matches any header; a field
\* with no matching alias is absent; the result is the same for every order of
\* headers no two of which are equal ignoring case
C15_FirstAliasWinsIgnoringCase ==
    (script = "map_csv_headers" /\ pc = "returned") =>
        LET keys == [k \in 1..Len(input) |-> Lower(input[k])]
        IN  /\ FirstMatchWins(input, keys, output)
            /\ SameForEveryOrder(input, keys, output)

\* C15, amended: the same with headers compared ignoring case and surrounding
\* whitespace, both for matching an alias and for two headers being equal
C15_FirstAliasWinsIgnoringCaseAndPadding ==
    (script = "map_csv_headers" /\ pc = "returned") =>
        LET keys == [k \in 1..Len(input) |-> Strip(Lower(input[k]))]
        IN  /\ FirstMatchWins(input, keys, output)
            /\ SameForEveryOrder(input, keys, output)

\* C15 witness: of the headers "TOWN" and " city " the mapper has taken
\* " city " for city (alias city comes before town) and nothing else
C15_Witness ==
    /\ script = "map_csv_headers" /\ pc = "returned"
    /\ input = <<Town, PaddedCity>>
    /\ DOMAIN output = {"city"}
    /\ output["city"] = PaddedCity


\* a non-empty run of digits
IsNumeric(s) == s # <<>> /\ \A k \in 1..Len(s) : IsDigit(s[k])

\* a square-footage text with its commas and whitespace ignored
Cleaned(text) == Without(text, {",", " "})

\* a parser of square footage has returned
SquareFootageParsed == script \in SquareFootageParsers /\ pc = "returned"

\* the positions of the hyphens of a text
Hyphens(s) == {k \in 1..Len(s) : s[k] = "-"}

\* the text before and the text after position k
Before(s, k) == SubSeq(s, 1, k - 1)
After(s, k) == SubSeq(s, k + 1, Len(s))

\* C16: every square-footage parser returns (A, B) for "A-B" with A and B
\* numeric, commas and whitespace ignored, (N, N) for a bare numeric "N", and
\* (null, null) for "N/A", the empty string and non-numeric text
C16_SquareFootageOfRangeNumberAndGarbage ==
    SquareFootageParsed =>
        LET c == Cleaned(input)
        IN  /\ \A k \in Hyphens(c) :
                   IsNumeric(Before(c, k)) /\ IsNumeric(After(c, k)) =>
                       output = <<Num(DecimalValue(Before(c, k))),
                                  Num(DecimalValue(After(c, k)))>>
            /\ IsNumeric(c) => output = <<Num(DecimalValue(c)), Num(DecimalValue(c))>>
            /\ input \in {NA, <<>>} => output = <<NoNum, NoNum>>
            /\ (\E k \in 1..Len(c) : ~IsDigit(c[k]) /\ c[k] # "-") =>
                   output = <<NoNum, NoNum>>

\* C17: one hyphen separates a range whose sides may be empty: "A-" gives
\* (A, null), "-B" gives (null, B), a non-numeric side gives (null, null); a
\* text with more than one hyphen is not read as the range of its first two
\* parts; all copies of the parser return the same
C17_OneHyphenSeparatesOptionalSides ==
    SquareFootageParsed =>
        LET c == Cleaned(input)
            low == Before(c, Min(Hyphens(c)))
            high == After(c, Min(Hyphens(c)))
        IN  /\ (Cardinality(Hyphens(c)) = 1 /\ IsNumeric(low) /\ high = <<>>) =>
                   output = <<Num(DecimalValue(low)), NoNum>>
            /\ (Cardinality(Hyphens(c)) = 1 /\ low = <<>> /\ IsNumeric(high)) =>
                   output = <<NoNum, Num(DecimalValue(high))>>
            /\ (Cardinality(Hyphens(c)) = 1
                /\ ~(\A n \in 1..Len(low \o high) : IsDigit((low \o high)[n]))) =>
                   output = <<NoNum, NoNum>>
            /\ Cardinality(Hyphens(c)) > 1 => output = <<NoNum, NoNum>>
            /\ output = parse_square_footage(input)
            /\ output = quick_setup_parse_square_footage(input)
            /\ output = PropertyDataTransformer_parse_square_footage(input)


\* the first signed decimal number of a text, as the pair <<n, e>> that stands
\* for n / 10^e: the leftmost run of digits with the decimal point and the
\* minus sign that lead it, and the fraction that follows it
FirstSignedDecimal(text) ==
    LET p == Min({k \in 1..Len(text) : IsDigit(text[k])})
        pointLeads == p > 1 /\ text[p - 1] = "."
        start == IF pointLeads THEN p - 1 ELSE p
        negative == start > 1 /\ text[start - 1] = "-"
        run == DigitRun(text, p)
        q == p + Len(run)
        whole == IF pointLeads THEN <<>> ELSE run
        frac == IF pointLeads THEN run
                ELSE IF q <= Len(text) /\ text[q] = "." THEN DigitRun(text, q + 1)
                ELSE <<>>
        value == FloatOf(whole, frac)
    IN  <<IF negative THEN 0 - value[1] ELSE value[1], value[2]>>

\* C18: the rate parser returns the value of the first signed decimal number of
\* the text with '$' and thousands separators stripped ("$45.50/sq ft/year"
\* gives 45.50; a leading minus sign or decimal point is part of the number),
\* and null when the text is empty, is "N/A" or holds no digit
C18_RateIsFirstSignedDecimal ==
    (script \in RateParsers /\ pc = "returned") =>
        LET stripped == Without(input, {"$", ","})
        IN  /\ input = RatePerYear => output = Num(<<455, 1>>)
            /\ (input = <<>> \/ input = NA \/ ~HasNumber(input)) => output = NoNum
            /\ (HasNumber(input) /\ input # NA) =>
                   output = Num(FirstSignedDecimal(stripped))


\* ",".join(list)
RECURSIVE CommaJoined(_)
CommaJoined(list) ==
    IF list = <<>> THEN <<>>
    ELSE IF Len(list) = 1 THEN list[1]
    ELSE list[1] \o <<",">> \o CommaJoined(Tail(list))

\* the building-type parser the call is of, applied to a text
SameParser(text) ==
    IF script = "DataValidator.clean_building_types" THEN clean_building_types(text)
    ELSE IF script = "quick_setup.parse_building_types"
         THEN quick_setup_parse_building_types(text)
    ELSE parse_building_types(text)

\* C19: the building-type parser is idempotent: parsing the comma-joined output
\* of a parse gives the same list, for the strict parser and for the lenient
\* ones, inputs of separators only included
C19_BuildingTypeParserIdempotent ==
    (script \in BuildingTypeParsers /\ pc = "returned") =>
        SameParser(CommaJoined(output)) = output

\* the tokens of a text between commas, semicolons, slashes and pipes, trimmed
\* and title-cased, the empty ones dropped, each kept once in first-seen order
CanonicalTypes(text) ==
    LET tokens == SplitOn(text, {",", ";", "/", "|"})
    IN  Dedup(NonEmpty([k \in 1..Len(tokens) |-> Title(Strip(tokens[k]))]), <<>>)

\* C20: every building-type parser of an import path returns the tokens of its
\* input split on comma, semicolon, slash and pipe, trimmed, title-cased,
\* without empty tokens and without duplicates, in first-seen order
C20_BuildingTypesSplitTitledDeduplicated ==
    (script \in BuildingTypeParsers /\ pc = "returned" /\ CanonicalTypes(input) # <<>>) =>
        output = CanonicalTypes(input)



\* a latitude within [-90, 90] and a longitude within [-180, 180]
OnTheGlobe(lat, lng) ==
    /\ -90 <= lat[1] /\ lat[1] <= 90
    /\ -180 <= lng[1] /\ lng[1] <= 180

\* C21: every validate_coordinates of the repository answers valid exactly when
\* a coordinate of the pair is missing or the latitude is within [-90, 90] and
\* the longitude within [-180, 180]; so (91, 0) and (45, -200) are invalid and
\* (37, -122) and (null, null) are valid.
C21_ValidIffMissingOrOnTheGlobe ==
    (script \in CoordinateValidators /\ pc = "returned")
        => (output = TRUE <=> (\/ input[1] = NoNum
                               \/ input[2] = NoNum
                               \/ OnTheGlobe(input[1], input[2])))


\* the state outside the call is as the call found it
NothingElseTouched ==
    /\ store = <<>> /\ workspace = <<>> /\ trace = <<>> /\ outcomes = <<>>
    /\ queries = <<>> /\ results = InitialResults /\ stats = ZeroStats

\* text with no number in it: empty, blank, or made of separators and letters
Malformed(text) == \A k \in 1..Len(text) : ~IsDigit(text[k])

\* C22: every value parser (square footage, rate, building types, coordinate
\* validator, phone formatter) is total and free of side effects: whatever the
\* input, the call ends by returning, never by an exception, and nothing but
\* its result has changed.
C22_ParsersReturnAndTouchNothing ==
    script \in ValueParsers
        => /\ pc \in {"call", "returned"}
           /\ NothingElseTouched

\* a square-footage parser was given text with no number in it, caught the
\* ValueError of int() and returned (None, None)
C22_Witness ==
    /\ script \in SquareFootageParsers
    /\ pc = "returned"
    /\ input # <<>> /\ Strip(input) # <<>> /\ Malformed(input)
    /\ int_raises(Without(input, {",", " ", "-"})) = {ValueError}
    /\ output = NoRange


\* the rows of the table, as a set
RowsOf(rows) == {rows[k] : k \in 1..Len(rows)}

\* C23: a table self-test (test_table.test_table, create_supabase_table.main)
\* removes nothing but the record its own run inserted: every record the table
\* held before the test is still there, unchanged, at every step of the test.
C23_SelfTestKeepsEarlierRecords ==
    script \in SelfTests => RowsOf(input) \subseteq RowsOf(store)


\* the store rows that carry the id of the page
LinkedTo(rows, notion_page) ==
    {k \in 1..Len(rows) : rows[k].notion_id = Num(notion_page.id)}

\* the loop body of sync_notion_to_supabase for page i: what it must do
HandlesPage ==
    LET notion_page == valid_records[i]
        found == LinkedTo(store, notion_page) # {}
        e == trace'[Len(trace')]
    IN  /\ Len(trace') = Len(trace) + 1
        /\ e.driver = "sync_notion_to_supabase"
        /\ e.lo = i /\ e.hi = i
        /\ e.before = stats
        /\ e.after \in {CountCreated(stats, 1), CountUpdated(stats), CountError(stats)}
        /\ Total(e.after) = Total(stats) + 1
        /\ (e.after = CountUpdated(stats)) <=> (e.ok /\ found)
        /\ (e.after = CountCreated(stats, 1)) <=> (e.ok /\ ~found)
        /\ (e.ok /\ found)
             => /\ e.op = "update"
                /\ Len(store') = Len(store)
                /\ \A k \in 1..Len(store) :
                      store'[k] = IF k \in LinkedTo(store, notion_page)
                                  THEN StoreRow(store[k].id, notion_to_supabase(notion_page))
                                  ELSE store[k]
        /\ (e.ok /\ ~found)
             => /\ e.op = "insert"
                /\ store' = Append(store, StoreRow(NewId(store),
                                                   notion_to_supabase(notion_page)))
        /\ ~e.ok => store' = store
        /\ IF i < Len(valid_records)
           THEN i' = i + 1 /\ stats' = e.after
           ELSE results'.notion_to_supabase = <<e.after>>

\* C24: sync_notion_to_supabase handles the fetched pages in fetch order; for
\* each page it updates the store row whose notion_id is the page id when there
\* is one and inserts a row otherwise, and increments exactly one of created,
\* updated and errors, so the counters it returns add up to the number of
\* pages fetched.
C24_OneCounterPerFetchedPage ==
    /\ [][(script \in {"sync_to_supabase", "full_sync"} /\ pc = "page")
            => HandlesPage]_vars
    /\ [](script \in {"sync_to_supabase", "full_sync"}
            => /\ pc = "page" => valid_records = workspace
               /\ results.notion_to_supabase # <<>>
                    => Total(results.notion_to_supabase[1]) = Len(properties))

\* a sync has returned after updating the row of one page and inserting a row
\* for another
C24_Witness ==
    /\ script = "sync_to_supabase" /\ pc = "done"
    /\ results.notion_to_supabase # <<>>
    /\ results.notion_to_supabase[1].created = 1
    /\ results.notion_to_supabase[1].updated = 1
    /\ Len(properties) = 2


\* the loop body of sync_supabase_to_notion for row i: what it must do
PushesUnsyncedOnly ==
    LET prop == valid_records[i]
        e == trace'[Len(trace')]
    IN  /\ \E k \in 1..Len(store) : store[k].id = prop.id /\ store[k].notion_id = NoNum
        /\ prop.notion_id = NoNum
        /\ Len(store') = Len(store)
        /\ \A k \in 1..Len(store) :
              (store[k].notion_id # NoNum \/ store[k].id # prop.id)
                  => store'[k] = store[k]
        /\ Len(workspace') \in {Len(workspace), Len(workspace) + 1}
        /\ SubSeq(workspace', 1, Len(workspace)) = workspace
        /\ (e.op = "update" /\ e.ok)
              => /\ Len(workspace') = Len(workspace) + 1
                 /\ \A k \in 1..Len(store) :
                       store[k].id = prop.id
                           => store'[k] = [store[k] EXCEPT !.notion_id =
                                              Num(workspace'[Len(workspace')].id)]
        /\ ~e.ok => store' = store

\* C25: sync_supabase_to_notion creates pages only for store rows whose
\* notion_id is null; after an iteration that succeeded the row's notion_id is
\* the id of the page just created, and rows that had a notion_id are neither
\* pushed nor modified.
C25_OnlyUnsyncedRowsArePushed ==
    [][(script \in {"sync_to_notion", "full_sync"} /\ pc = "push")
          => PushesUnsyncedOnly]_vars

\* a reverse sync over a table with a linked and an unlinked row has returned:
\* the unlinked row now carries the id of the page created for it
C25_Witness ==
    /\ script = "sync_to_notion" /\ pc = "done"
    /\ Len(store) = 2
    /\ results.supabase_to_notion # <<>>
    /\ results.supabase_to_notion[1].created = 1
    /\ \E k \in 1..Len(store) : store[k].notion_id = Num(workspace[Len(workspace)].id)
    /\ \E k \in 1..Len(store) : store[k] = LinkedRow(k)


\* the events of one driver in the trace
EventsOf(driver) == {k \in 1..Len(trace) : trace[k].driver = driver}

\* the second phase of full_sync has started
SecondPhase ==
    \/ pc \in {"select_unsynced", "push"}
    \/ results.supabase_to_notion # <<>>
    \/ EventsOf("sync_supabase_to_notion") # {}

\* C26: full_sync runs the Notion-to-store phase to completion before the
\* store-to-Notion phase starts, and a store row inserted or updated from a
\* Notion page in the first phase is never pushed to Notion as a new page in
\* the second: the rows pushed are rows the run found in the table, without
\* notion_id, and did not write in the first phase.
C26_FirstPhaseEndsBeforeSecond ==
    script = "full_sync"
        => /\ SecondPhase
                => /\ ~has_more
                   /\ results.notion_to_supabase # <<>>
                   /\ Cardinality(EventsOf("sync_notion_to_supabase")) = Len(properties)
           /\ \A a \in EventsOf("sync_notion_to_supabase") :
                 \A b \in EventsOf("sync_supabase_to_notion") : a < b
           /\ pc = "push"
                => \A m \in 1..Len(valid_records) :
                      /\ valid_records[m].notion_id = NoNum
                      /\ valid_records[m] \in RowsOf(input)

\* a full sync has inserted a row for a page in its first phase and pushed
\* another row, which the table held without notion_id, in its second
C26_Witness ==
    /\ script = "full_sync" /\ pc = "done"
    /\ results.notion_to_supabase # <<>> /\ results.supabase_to_notion # <<>>
    /\ results.notion_to_supabase[1].created >= 1
    /\ results.supabase_to_notion[1].created >= 1


\* the store rows with the address and the city of the record, in table order
RowsWithKey(rows, record) == {k \in 1..Len(rows) : SameKey(rows[k], record)}

\* the fallback's handling of record j of the failed batch: what it must do
UpdatesIffKeyExists ==
    LET record == valid_records[j]
        found == RowsWithKey(store, record) # {}
        e == trace'[Len(trace')]
    IN  /\ Len(trace') = Len(trace) + 1
        /\ e.lo = j /\ e.hi = j
        /\ e.ok => /\ (e.op = "update") <=> found
                   /\ (e.op = "insert") <=> ~found
                   /\ e.after = IF found THEN CountUpdated(stats)
                                ELSE CountCreated(stats, 1)
        /\ (e.ok /\ found)
              => /\ Len(store') = Len(store)
                 /\ \A k \in 1..Len(store) :
                       IF k = Min(RowsWithKey(store, record))
                       THEN /\ store'[k].id = store[k].id
                            /\ SameKey(store'[k], record)
                            /\ store'[k].rate_text = record.rate_text
                            /\ store'[k].state = record.state
                            /\ store'[k].building_types = record.building_types
                       ELSE store'[k] = store[k]
        /\ (e.ok /\ ~found)
              => store' = Append(store, StoreRow(NewId(store), record))
        /\ ~e.ok => store' = store

\* a batch of two records with the same address and city failed as a whole over
\* an empty table, and the fallback wrote both
TwoSameKeyRecordsFellBack ==
    /\ script = "csv_import"
    /\ Len(trace) >= 3
    /\ IsFailedBatch(trace[1]) /\ trace[1].lo = 1 /\ trace[1].hi >= 2
    /\ trace[2].ok /\ trace[2].lo = 1
    /\ trace[3].ok /\ trace[3].lo = 2
    /\ SameKey(valid_records[1], valid_records[2])

\* C27: in the per-record fallback of import_to_supabase a record is written as
\* an update, of the first store row the lookup returns, if and only if a store
\* row with its address and city exists at lookup time, and is inserted
\* otherwise; the lookup sees what earlier records of the batch wrote, so two
\* same-key records of one failed batch over an empty table give one create
\* followed by one update.
C27_FallbackUpdatesIffKeyExists ==
    /\ [][(script = "csv_import" /\ pc = "fallback") => UpdatesIffKeyExists]_vars
    /\ [](TwoSameKeyRecordsFellBack
            => /\ trace[2].op = "insert" /\ trace[3].op = "update"
               /\ trace[3].after.created = 1 /\ trace[3].after.updated = 1)

\* the run has returned after such a fallback: one row holds the key
C27_Witness ==
    /\ TwoSameKeyRecordsFellBack
    /\ pc = "done"
    /\ Len(valid_records) = 2
    /\ Cardinality(RowsWithKey(store, valid_records[1])) = 1
    /\ store[1].rate_text = valid_records[2].rate_text


\* no remote call of the runs so far has failed
FailureFree == pc # "raised" /\ \A p \in 1..Len(trace) : trace[p].ok

\* no two rows of the table carry the same page id
NotionIdUnique ==
    \A k, m \in 1..Len(store) :
        (k # m /\ store[k].notion_id # NoNum) => store[k].notion_id # store[m].notion_id

\* C28: sync_notion_to_supabase can be repeated: after one run without failure
\* over the pages of the database, a second run without failure over the same
\* pages creates nothing and leaves the number of rows of the table as it was,
\* and the table never holds two rows with the same notion_id.
C28_SecondRunCreatesNothing ==
    script = "sync_to_supabase"
        => /\ NotionIdUnique
           /\ (j = 2 /\ FailureFree)
                => /\ Len(store) = outcomes[1].rows
                   /\ stats.created = 0
                   /\ results.notion_to_supabase # <<>>
                        => /\ results.notion_to_supabase[1].created = 0
                           /\ results.notion_to_supabase[1].updated = Len(workspace)
                           /\ results.notion_to_supabase[1].errors = 0

\* the second run has returned; the first had inserted a row for each of two
\* pages and the second updated both
C28_Witness ==
    /\ script = "sync_to_supabase" /\ j = 2 /\ pc = "done"
    /\ FailureFree
    /\ outcomes[1].results.notion_to_supabase[1].created = 2
    /\ results.notion_to_supabase[1].updated = 2
    /\ Len(store) > Len(input)


\* the store row that operation p of the trace was issued for, in a reverse sync
PushedRow(p) ==
    IF outcomes # <<>> /\ p <= outcomes[1].events
    THEN outcomes[1].records[trace[p].lo]
    ELSE valid_records[trace[p].lo]

\* the pages created so far for the store row with this id
PagesCreatedFor(id) ==
    {p \in 1..Len(trace) :
        /\ trace[p].driver = "sync_supabase_to_notion"
        /\ trace[p].op = "create_page" /\ trace[p].ok
        /\ PushedRow(p).id = id}

\* C29: over the runs of sync_supabase_to_notion, runs in which a page creation
\* or the write-back of notion_id fails included, at most one workspace page is
\* created for any store row.
C29_AtMostOnePagePerRow ==
    script = "sync_to_notion"
        => \A k \in 1..Len(store) : Cardinality(PagesCreatedFor(store[k].id)) <= 1


FreshCursors ==
    \A q \in 1..Len(outcomes) :
        outcomes[q].has_more
            => /\ outcomes[q].next_cursor # NoNum
               /\ \A p \in 1..(q - 1) :
                     outcomes[p].next_cursor # outcomes[q].next_cursor

=============================================================================
